---------------------------- MODULE Spec2Model ----------------------------
(***************************************************************************)
(* Decode / repair / evaluate engine of the hospital timetabling solver    *)
(* (src/src/Solver.cc).  One Solver object is modelled: its immutable      *)
(* originalProblem, the working copy of the surgeons, the decoded           *)
(* Solution, and the caller's EncodedSolution that solve receives by        *)
(* reference.  solve runs as a sequence of steps: initializeDynamicStates,  *)
(* the mandatory / optional split, one step per encoded entry, and the      *)
(* nurse application plus evaluation.                                       *)
(*                                                                         *)
(* Conventions.  Days are 0-based as in the code; per-day vectors and maps  *)
(* are functions over 0..days-1.  Sequences are 1-based, so a C++ vector    *)
(* index k is read at k+1.  A std::map<int, vector> entry that is absent    *)
(* is the empty sequence (the code never stores an empty list under a key).*)
(* The patient and occupant lists of the dynamic state hold ids; the code   *)
(* holds copies of the immutable records, read through Pat and Occ.         *)
(* An optional<int> admission day is the pair (has_day, admission_day).     *)
(*                                                                         *)
(* Input domain.  Encoded admission days lie inside the horizon, an         *)
(* encoding names each patient at most once, and it holds one nurse block   *)
(* per working shift.  Unknown patient, room and surgeon ids are inside the *)
(* domain.                                                                  *)
(***************************************************************************)
EXTENDS Integers, Sequences, FiniteSets, TLC

VARIABLES
  inst,          \* originalProblem, and every part of problem but the surgeons
  surgeons,      \* problem.surgeons: the working copy that assignSurgeon mutates
  roomStates,    \* solution.roomStates
  theaterStates, \* solution.theaterStates
  solPatients,   \* solution.patients
  solNurses,     \* solution.nurses
  softConstraints, \* solution.soft_constraints (S1..S8)
  totalSoft,     \* solution.total_soft_constraints
  enc,           \* the caller's EncodedSolution of the last solve, passed by reference
  mandatoryEnc,  \* solve's local copies of the mandatory entries
  optionalEnc,   \* solve's local copies of the optional entries
  cur,           \* position of the running loop of solve in its list
  pc,            \* position of the solver
  result,        \* what the last call returned: a (hard, soft) pair, or nothing
  fault,         \* the exception that ended the last call, "none" otherwise
  hardParts,     \* H1..H8 as counted by the last evaluation (history)
  ub,            \* outcome of the read through end() in H5 (history)
  log,           \* entries processed by the running solve, in order (history)
  prev,          \* result of the previous solve on the same encoding (history)
  ls             \* the locals of the running localSearchNurses call, if any

vars == <<inst, surgeons, roomStates, theaterStates, solPatients, solNurses,
          softConstraints, totalSoft, enc, mandatoryEnc, optionalEnc, cur, pc,
          result, fault, hardParts, ub, log, prev, ls>>

---------------------------------------------------------------------------
(* Bounds of the model *)

\* problem.days of the instances explored
Horizon == 2

(* Program constants *)

\* MAX_ATTEMPTS of repairOptionalPatient
MAX_ATTEMPTS == 5

\* the literal 3 of calculateMaximumWorkloadPenalty's workload index
WORKLOAD_STRIDE == 3

---------------------------------------------------------------------------
(* Generic helpers *)

Min(a, b) == IF a < b THEN a ELSE b

Range(s) == {s[k] : k \in 1..Len(s)}

RECURSIVE SumSeq(_)
SumSeq(s) == IF s = <<>> THEN 0 ELSE s[1] + SumSeq(Tail(s))

RECURSIVE SumOver(_, _)
\* sum of f[x] over the finite set S
SumOver(S, f) ==
  IF S = {} THEN 0
  ELSE LET x == CHOOSE y \in S : TRUE IN f[x] + SumOver(S \ {x}, f)

\* std::find_if over a vector of records with an id: first index, 0 for end()
RECURSIVE FindFrom(_, _, _)
FindFrom(s, id, k) ==
  IF k > Len(s) THEN 0
  ELSE IF s[k].id = id THEN k ELSE FindFrom(s, id, k + 1)

FindById(s, id) == FindFrom(s, id, 1)

NoResult == [kind |-> "none", hard |-> 0, soft |-> 0]
Score(h, s) == [kind |-> "score", hard |-> h, soft |-> s]

---------------------------------------------------------------------------
(* Problem instances.  The fields are those the solver reads from           *)
(* ProblemInstance.                                                         *)

ShiftTypes == <<"early", "late", "night">>
AgeGroups == <<"infant", "adult", "elderly">>

Weights ==
  [room_mixed_age |-> 5, room_nurse_skill |-> 1, continuity_of_care |-> 1,
   nurse_eccessive_workload |-> 2, open_operating_theater |-> 3,
   surgeon_transfer |-> 2, patient_delay |-> 4, unscheduled_optional |-> 7]

\* a per-(day, shift) vector of the given length
Vec(len, a, b) == [k \in 1..len |-> IF k % 3 = 1 THEN a ELSE b]

Rooms(c1) ==
  << [id |-> "r1", capacity |-> c1], [id |-> "r2", capacity |-> 2] >>

Occupants(h) ==
  << [id |-> "o1", gender |-> "A", age_group |-> "adult", room_id |-> "r1",
      length_of_stay |-> 1,
      skill_level_required |-> Vec(3, 4, 1), workload_produced |-> Vec(3, 2, 1)],
     [id |-> "o2", gender |-> "B", age_group |-> "elderly", room_id |-> "r1",
      length_of_stay |-> h + 1,
      skill_level_required |-> Vec(3 * (h + 1), 1, 3),
      workload_produced |-> Vec(3 * (h + 1), 1, 2)] >>

Theaters(h) ==
  << [id |-> "t1", availability |-> [d \in 0..(h - 1) |-> 2]],
     [id |-> "t2", availability |-> [d \in 0..(h - 1) |-> IF d = 0 THEN 3 ELSE 1]] >>

SurgeonsOf(h) ==
  << [id |-> "s1", max_surgery_time |-> [d \in 0..(h - 1) |-> IF d = 0 THEN 4 ELSE 3]],
     [id |-> "s2", max_surgery_time |-> [d \in 0..(h - 1) |-> 1]] >>

Patients(m2, s3) ==
  << [id |-> "p1", mandatory |-> TRUE, gender |-> "A", age_group |-> "adult",
      surgeon_id |-> "s1", surgery_duration |-> 2,
      surgery_release_day |-> 0, surgery_due_day |-> 1, length_of_stay |-> 2,
      incompatible_room_ids |-> <<>>,
      skill_level_required |-> Vec(6, 2, 1), workload_produced |-> Vec(6, 2, 1)],
     [id |-> "p2", mandatory |-> m2, gender |-> "B", age_group |-> "infant",
      surgeon_id |-> "s2", surgery_duration |-> 1,
      surgery_release_day |-> 0, surgery_due_day |-> 0, length_of_stay |-> 1,
      incompatible_room_ids |-> <<"r2">>,
      skill_level_required |-> Vec(3, 1, 2), workload_produced |-> Vec(3, 1, 1)],
     [id |-> "p3", mandatory |-> FALSE, gender |-> "A", age_group |-> "elderly",
      surgeon_id |-> s3, surgery_duration |-> 2,
      surgery_release_day |-> 1, surgery_due_day |-> 1, length_of_stay |-> 1,
      incompatible_room_ids |-> <<>>,
      skill_level_required |-> Vec(3, 3, 2), workload_produced |-> Vec(3, 3, 1)] >>

\* n1 works early and late every day, n2 works early on day 0 and every night
RECURSIVE DayShifts(_, _, _, _)
DayShifts(d, h, shifts, load) ==
  IF d >= h THEN <<>>
  ELSE [k \in 1..Len(shifts) |-> [day |-> d, shift |-> shifts[k], max_load |-> load]]
       \o DayShifts(d + 1, h, shifts, load)

Nurses(h) ==
  << [id |-> "n1", skill_level |-> 1,
      working_shifts |-> DayShifts(0, h, <<"early", "late">>, 2)],
     [id |-> "n2", skill_level |-> 3,
      working_shifts |-> <<[day |-> 0, shift |-> "early", max_load |-> 4]>>
                         \o DayShifts(0, h, <<"night">>, 3)] >>

MkProblem(c1, m2, s3) ==
  [days |-> Horizon, rooms |-> Rooms(c1), occupants |-> Occupants(Horizon),
   theaters |-> Theaters(Horizon), surgeons |-> SurgeonsOf(Horizon),
   patients |-> Patients(m2, s3), nurses |-> Nurses(Horizon),
   shift_types |-> ShiftTypes, age_groups |-> AgeGroups, weights |-> Weights]

ProblemInstances ==
  {MkProblem(c1, m2, "s1") : c1 \in {1, 2}, m2 \in BOOLEAN}
    \cup {MkProblem(2, FALSE, "sx")}

\* one mandatory patient, one room of capacity 2, one theater and one surgeon
\* that fit the surgery exactly, no occupant
SinglePatientProblem ==
  [days |-> Horizon,
   rooms |-> << [id |-> "r1", capacity |-> 2] >>,
   occupants |-> <<>>,
   theaters |-> << [id |-> "t1", availability |-> [d \in 0..(Horizon - 1) |-> 2]] >>,
   surgeons |-> << [id |-> "s1",
                    max_surgery_time |-> [d \in 0..(Horizon - 1) |-> 2]] >>,
   patients |->
     << [id |-> "p1", mandatory |-> TRUE, gender |-> "A", age_group |-> "adult",
         surgeon_id |-> "s1", surgery_duration |-> 2,
         surgery_release_day |-> 1, surgery_due_day |-> 1, length_of_stay |-> 1,
         incompatible_room_ids |-> <<>>,
         skill_level_required |-> Vec(3, 2, 1),
         workload_produced |-> Vec(3, 2, 1)] >>,
   nurses |-> Nurses(Horizon),
   shift_types |-> ShiftTypes, age_groups |-> AgeGroups, weights |-> Weights]

\* no occupant, two rooms, three patients that fit one day together: p1 of
\* one gender, p2 and p3 of the other; every room is incompatible for the
\* mandatory p2; the larger theater is the second on day 0 and the first
\* later, and two theaters are open candidates for the third surgery of a day
ThreePatientProblem ==
  [days |-> Horizon,
   rooms |-> << [id |-> "r1", capacity |-> 2], [id |-> "r2", capacity |-> 2] >>,
   occupants |-> <<>>,
   theaters |->
     << [id |-> "t1",
         availability |-> [d \in 0..(Horizon - 1) |-> IF d = 0 THEN 4 ELSE 5]],
        [id |-> "t2",
         availability |-> [d \in 0..(Horizon - 1) |-> IF d = 0 THEN 5 ELSE 4]] >>,
   surgeons |->
     << [id |-> "s1", max_surgery_time |-> [d \in 0..(Horizon - 1) |-> 3]],
        [id |-> "s2", max_surgery_time |-> [d \in 0..(Horizon - 1) |-> 4]] >>,
   patients |->
     << [id |-> "p1", mandatory |-> TRUE, gender |-> "A", age_group |-> "adult",
         surgeon_id |-> "s1", surgery_duration |-> 3,
         surgery_release_day |-> 0, surgery_due_day |-> 1, length_of_stay |-> 2,
         incompatible_room_ids |-> <<>>,
         skill_level_required |-> Vec(6, 2, 1),
         workload_produced |-> Vec(6, 2, 1)],
        [id |-> "p2", mandatory |-> TRUE, gender |-> "B", age_group |-> "infant",
         surgeon_id |-> "s2", surgery_duration |-> 3,
         surgery_release_day |-> 0, surgery_due_day |-> 1, length_of_stay |-> 1,
         incompatible_room_ids |-> <<"r1", "r2">>,
         skill_level_required |-> Vec(3, 1, 2),
         workload_produced |-> Vec(3, 1, 1)],
        [id |-> "p3", mandatory |-> FALSE, gender |-> "B", age_group |-> "elderly",
         surgeon_id |-> "s2", surgery_duration |-> 1,
         surgery_release_day |-> 0, surgery_due_day |-> 1, length_of_stay |-> 1,
         incompatible_room_ids |-> <<>>,
         skill_level_required |-> Vec(3, 3, 2),
         workload_produced |-> Vec(3, 3, 1)] >>,
   nurses |-> Nurses(Horizon),
   shift_types |-> ShiftTypes, age_groups |-> AgeGroups, weights |-> Weights]

ScenarioInstances == {SinglePatientProblem, ThreePatientProblem}

\* the instance of the nurse search: two rooms, no occupant, a demanding
\* mandatory patient and an easy optional one, and two nurses of different
\* skill who both work the early and the late shift of day 0, so that blocks
\* 1 and 3 and blocks 2 and 4 share their (day, shift)
NurseSearchProblem ==
  [days |-> Horizon,
   rooms |-> << [id |-> "r1", capacity |-> 2], [id |-> "r2", capacity |-> 2] >>,
   occupants |-> <<>>,
   theaters |-> << [id |-> "t1", availability |-> [d \in 0..(Horizon - 1) |-> 6]] >>,
   surgeons |-> << [id |-> "s1",
                    max_surgery_time |-> [d \in 0..(Horizon - 1) |-> 6]] >>,
   patients |->
     << [id |-> "p1", mandatory |-> TRUE, gender |-> "A", age_group |-> "adult",
         surgeon_id |-> "s1", surgery_duration |-> 2,
         surgery_release_day |-> 0, surgery_due_day |-> 0, length_of_stay |-> 1,
         incompatible_room_ids |-> <<>>,
         skill_level_required |-> <<3, 3, 3>>,
         workload_produced |-> <<3, 3, 3>>],
        [id |-> "p2", mandatory |-> FALSE, gender |-> "A", age_group |-> "adult",
         surgeon_id |-> "s1", surgery_duration |-> 2,
         surgery_release_day |-> 0, surgery_due_day |-> 0, length_of_stay |-> 1,
         incompatible_room_ids |-> <<>>,
         skill_level_required |-> <<1, 1, 1>>,
         workload_produced |-> <<1, 1, 1>>] >>,
   nurses |->
     << [id |-> "n1", skill_level |-> 1,
         working_shifts |-> << [day |-> 0, shift |-> "early", max_load |-> 5],
                               [day |-> 0, shift |-> "late", max_load |-> 5] >>],
        [id |-> "n2", skill_level |-> 3,
         working_shifts |-> << [day |-> 0, shift |-> "early", max_load |-> 1],
                               [day |-> 0, shift |-> "late", max_load |-> 5] >>] >>,
   shift_types |-> ShiftTypes, age_groups |-> AgeGroups, weights |-> Weights]

Days == 0..(inst.days - 1)

\* an instance with two declared shift types: the vectors hold two entries per
\* day of stay; the nurse works early and late on day 0 and early on day 1.
\* Both surgeries use up the surgeon and the theater on day 0; on later days
\* the theater has room for both and the surgeon has not
TwoShiftProblem ==
  [days |-> Horizon,
   rooms |-> << [id |-> "r1", capacity |-> 2], [id |-> "r2", capacity |-> 2] >>,
   occupants |->
     << [id |-> "o1", gender |-> "A", age_group |-> "adult", room_id |-> "r1",
         length_of_stay |-> 1,
         skill_level_required |-> <<1, 2>>, workload_produced |-> <<1, 2>>] >>,
   theaters |-> << [id |-> "t1", availability |->
                      [d \in 0..(Horizon - 1) |-> IF d = 0 THEN 5 ELSE 6]] >>,
   surgeons |-> << [id |-> "s1",
                    max_surgery_time |->
                      [d \in 0..(Horizon - 1) |-> IF d = 0 THEN 5 ELSE 4]] >>,
   patients |->
     << [id |-> "p1", mandatory |-> TRUE, gender |-> "A", age_group |-> "adult",
         surgeon_id |-> "s1", surgery_duration |-> 3,
         surgery_release_day |-> 0, surgery_due_day |-> 1, length_of_stay |-> 2,
         incompatible_room_ids |-> <<>>,
         skill_level_required |-> <<1, 2, 3, 4>>,
         workload_produced |-> <<1, 2, 3, 4>>],
        [id |-> "p2", mandatory |-> FALSE, gender |-> "A", age_group |-> "adult",
         surgeon_id |-> "s1", surgery_duration |-> 2,
         surgery_release_day |-> 0, surgery_due_day |-> 1, length_of_stay |-> 1,
         incompatible_room_ids |-> <<>>,
         skill_level_required |-> <<1, 1>>,
         workload_produced |-> <<1, 1>>] >>,
   nurses |->
     << [id |-> "n1", skill_level |-> 1,
         working_shifts |-> << [day |-> 0, shift |-> "early", max_load |-> 1],
                               [day |-> 0, shift |-> "late", max_load |-> 1],
                               [day |-> 1, shift |-> "early", max_load |-> 1] >>] >>,
   shift_types |-> <<"early", "late">>, age_groups |-> AgeGroups,
   weights |-> Weights]

Pat(id) == inst.patients[FindById(inst.patients, id)]
Occ(id) == inst.occupants[FindById(inst.occupants, id)]

\* the number of nurse blocks an encoding holds: one per working shift
RECURSIVE CountShifts(_, _)
CountShifts(nurses, k) ==
  IF k > Len(nurses) THEN 0
  ELSE Len(nurses[k].working_shifts) + CountShifts(nurses, k + 1)

TotalBlocks(p) == CountShifts(p.nurses, 1)

---------------------------------------------------------------------------
(* initializeDynamicStates *)

\* a plausible slip: an occupant is listed but takes no capacity
SeedOccupantKeepsCapacity(rs, o, days) ==
  IF o.room_id = rs.room_info.id
    THEN [rs EXCEPT
           !.occupants_per_day =
              [d \in 0..(days - 1) |->
                 IF d < o.length_of_stay THEN Append(@[d], o.id) ELSE @[d]]]
    ELSE rs

\* one occupant seeded into a room state: the loop body of lines 53-60
SeedOccupant(rs, o, days) ==
  IF o.room_id = rs.room_info.id
    THEN [rs EXCEPT
           !.occupants_per_day =
              [d \in 0..(days - 1) |->
                 IF d < o.length_of_stay THEN Append(@[d], o.id) ELSE @[d]],
           !.capacity_per_day =
              [d \in 0..(days - 1) |->
                 IF d < o.length_of_stay THEN @[d] - 1 ELSE @[d]]]
    ELSE rs

RECURSIVE SeedOccupants(_, _, _, _)
SeedOccupants(rs, occs, k, days) ==
  IF k > Len(occs) THEN rs
  ELSE SeedOccupants(SeedOccupant(rs, occs[k], days), occs, k + 1, days)

InitRoomState(room, p) ==
  SeedOccupants(
    [room_info |-> room,
     capacity_per_day |-> [d \in 0..(p.days - 1) |-> room.capacity],
     patients_per_day |-> [d \in 0..(p.days - 1) |-> <<>>],
     occupants_per_day |-> [d \in 0..(p.days - 1) |-> <<>>]],
    p.occupants, 1, p.days)

InitRoomStates(p) == [k \in 1..Len(p.rooms) |-> InitRoomState(p.rooms[k], p)]

InitTheaterStates(p) ==
  [k \in 1..Len(p.theaters) |->
     [theater_info |-> p.theaters[k],
      availability_per_day |-> [d \in 0..(p.days - 1) |-> p.theaters[k].availability[d]],
      patients_per_day |-> [d \in 0..(p.days - 1) |-> <<>>]]]

\* a plausible slip: the working copy of the surgeons is left as it is
KeepSurgeons(current, original) == current

\* problem.surgeons = originalProblem.surgeons
ResetSurgeons(current, original) == original

---------------------------------------------------------------------------
(* The three feasibility checks.  Each yields "pass", "fail" or "throw".   *)

\* a plausible slip: the surgeon only needs some time left on the day
SurgeonHasTimeLeft(surgs, patient, day) ==
  LET k == FindById(surgs, patient.surgeon_id) IN
  IF k = 0 THEN "throw"
  ELSE IF surgs[k].max_surgery_time[day] > 0 THEN "pass" ELSE "fail"

checkSurgeonAvailability(surgs, patient, day) ==
  LET k == FindById(surgs, patient.surgeon_id) IN
  IF k = 0 THEN "throw"
  ELSE IF surgs[k].max_surgery_time[day] >= patient.surgery_duration
       THEN "pass" ELSE "fail"

checkOperatingTheaterAvailability(ths, patient, day) ==
  IF \E i \in 1..Len(ths) :
       ths[i].availability_per_day[day] >= patient.surgery_duration
  THEN "pass" ELSE "fail"

RECURSIVE FindRoomFrom(_, _, _)
FindRoomFrom(rms, room_id, k) ==
  IF k > Len(rms) THEN 0
  ELSE IF rms[k].room_info.id = room_id THEN k ELSE FindRoomFrom(rms, room_id, k + 1)

FindRoom(rms, room_id) == FindRoomFrom(rms, room_id, 1)

\* a plausible slip: the gender tests of the day loop are dropped
RoomDayHasCapacity(rs, patient, day) == rs.capacity_per_day[day] > 0

\* the body of the day loop of checkRoomAvailability
RoomDayOk(rs, patient, day) ==
  /\ rs.capacity_per_day[day] > 0
  /\ \A k \in 1..Len(rs.patients_per_day[day]) :
        Pat(rs.patients_per_day[day][k]).gender = patient.gender
  /\ \A k \in 1..Len(rs.occupants_per_day[day]) :
        Occ(rs.occupants_per_day[day][k]).gender = patient.gender

\* a plausible slip: the capacity test of the day loop is dropped
checkRoomGenderOnly(rms, patient, admission_day, room_id) ==
  LET k == FindRoom(rms, room_id)
      end_day == Min(admission_day + patient.length_of_stay, inst.days)
  IN IF k = 0 THEN "throw"
     ELSE IF \A day \in admission_day..(end_day - 1) :
               /\ \A j \in 1..Len(rms[k].patients_per_day[day]) :
                     Pat(rms[k].patients_per_day[day][j]).gender = patient.gender
               /\ \A j \in 1..Len(rms[k].occupants_per_day[day]) :
                     Occ(rms[k].occupants_per_day[day][j]).gender = patient.gender
          THEN "pass" ELSE "fail"

checkRoomAvailability(rms, patient, admission_day, room_id) ==
  LET k == FindRoom(rms, room_id)
      end_day == Min(admission_day + patient.length_of_stay, inst.days)
  IN IF k = 0 THEN "throw"
     ELSE IF \A day \in admission_day..(end_day - 1) : RoomDayOk(rms[k], patient, day)
          THEN "pass" ELSE "fail"

\* a plausible slip: the room check is left out of the condition
SurgeonAndTheaterChecks(surgs, ths, rms, patient, day, room_id) ==
  LET cs == checkSurgeonAvailability(surgs, patient, day) IN
  IF cs # "pass" THEN cs
  ELSE checkOperatingTheaterAvailability(ths, patient, day)

\* the short-circuit condition of solve (lines 410-412) and of the repairs
\* (lines 317-319): surgeon, then theater, then room
FeasibilityChecks(surgs, ths, rms, patient, day, room_id) ==
  LET cs == checkSurgeonAvailability(surgs, patient, day) IN
  IF cs # "pass" THEN cs
  ELSE LET ct == checkOperatingTheaterAvailability(ths, patient, day) IN
       IF ct # "pass" THEN ct
       ELSE checkRoomAvailability(rms, patient, day, room_id)

---------------------------------------------------------------------------
(* The three commits *)

assignSurgeon(surgs, patient, day) ==
  LET k == FindById(surgs, patient.surgeon_id) IN
  IF k = 0 THEN [threw |-> TRUE, surgeons |-> surgs]
  ELSE [threw |-> FALSE,
        surgeons |-> [surgs EXCEPT ![k].max_surgery_time[day] =
                                      @ - patient.surgery_duration]]

\* indices of the theaters that fit the surgery, split as lines 194-207 do
RECURSIVE FittingTheaters(_, _, _, _, _)
FittingTheaters(ths, patient, day, k, open) ==
  IF k > Len(ths) THEN <<>>
  ELSE LET fits == ths[k].availability_per_day[day] >= patient.surgery_duration
           isOpen == ths[k].patients_per_day[day] # <<>>
       IN (IF fits /\ (isOpen = open) THEN <<k>> ELSE <<>>)
          \o FittingTheaters(ths, patient, day, k + 1, open)

\* a plausible slip: the first open theater that fits is taken
FirstOpen(ths, day, cand, k, best) == best

\* lines 212-220: the first open theater with the least availability
RECURSIVE BestOpen(_, _, _, _, _)
BestOpen(ths, day, cand, k, best) ==
  IF k > Len(cand) THEN best
  ELSE IF ths[cand[k]].availability_per_day[day] < ths[best].availability_per_day[day]
       THEN BestOpen(ths, day, cand, k + 1, cand[k])
       ELSE BestOpen(ths, day, cand, k + 1, best)

\* lines 230-238: the first closed theater with the most availability
RECURSIVE BestClosed(_, _, _, _, _)
BestClosed(ths, day, cand, k, best) ==
  IF k > Len(cand) THEN best
  ELSE IF ths[cand[k]].availability_per_day[day] > ths[best].availability_per_day[day]
       THEN BestClosed(ths, day, cand, k + 1, cand[k])
       ELSE BestClosed(ths, day, cand, k + 1, best)

TheaterTake(ths, patient, day, t) ==
  [threw |-> FALSE,
   theaters |-> [ths EXCEPT ![t].patients_per_day[day] = Append(@, patient.id),
                            ![t].availability_per_day[day] = @ - patient.surgery_duration],
   id |-> ths[t].theater_info.id]

assignOperatingTheater(ths, patient, day) ==
  LET openTheaters == FittingTheaters(ths, patient, day, 1, TRUE)
      closedTheaters == FittingTheaters(ths, patient, day, 1, FALSE)
  IN IF openTheaters # <<>>
       THEN TheaterTake(ths, patient, day,
                        BestOpen(ths, day, openTheaters, 1, openTheaters[1]))
     ELSE IF closedTheaters # <<>>
       THEN TheaterTake(ths, patient, day,
                        BestClosed(ths, day, closedTheaters, 1, closedTheaters[1]))
     ELSE [threw |-> TRUE, theaters |-> ths, id |-> ""]

\* the day loop of assignRoom: a throw leaves the earlier days assigned
RECURSIVE AssignRoomDays(_, _, _, _, _)
AssignRoomDays(rms, k, patient, current_day, end_day) ==
  IF current_day >= end_day THEN [threw |-> FALSE, rooms |-> rms]
  ELSE IF rms[k].capacity_per_day[current_day] <= 0
       THEN [threw |-> TRUE, rooms |-> rms]
       ELSE AssignRoomDays(
              [rms EXCEPT ![k].capacity_per_day[current_day] = @ - 1,
                          ![k].patients_per_day[current_day] = Append(@, patient.id)],
              k, patient, current_day + 1, end_day)

assignRoom(rms, patient, day, room_id) ==
  LET k == FindRoom(rms, room_id) IN
  IF k = 0 THEN [threw |-> TRUE, rooms |-> rms]
  ELSE AssignRoomDays(rms, k, patient, day,
                      Min(day + patient.length_of_stay, inst.days))

---------------------------------------------------------------------------
(* The repairs.  A repair receives the local encoded entry by reference and *)
(* yields its status with the entry as it leaves it.                        *)

\* a plausible slip: the repairs do not skip the incompatible rooms
NoRoomIncompatible(patient, room_id) == FALSE

IsIncompatible(patient, room_id) ==
  \E k \in 1..Len(patient.incompatible_room_ids) :
     patient.incompatible_room_ids[k] = room_id

\* the day x room double loop shared by both repairs, from (newDay, r) on
RECURSIVE RepairScan(_, _, _, _, _, _, _, _)
RepairScan(surgs, ths, rms, patient, e, newDay, lastDay, r) ==
  IF newDay > lastDay THEN [status |-> "fail", enc |-> e]
  ELSE IF r > Len(inst.rooms)
    THEN RepairScan(surgs, ths, rms, patient, e, newDay + 1, lastDay, 1)
  ELSE IF IsIncompatible(patient, inst.rooms[r].id)
    THEN RepairScan(surgs, ths, rms, patient, e, newDay, lastDay, r + 1)
  ELSE LET c == FeasibilityChecks(surgs, ths, rms, patient, newDay, inst.rooms[r].id)
       IN IF c = "pass"
            THEN [status |-> "ok",
                  enc |-> [e EXCEPT !.admission_day = newDay,
                                    !.room_id = inst.rooms[r].id]]
          ELSE IF c = "throw"
            THEN [status |-> "throw",
                  enc |-> [e EXCEPT !.admission_day = newDay,
                                    !.room_id = inst.rooms[r].id]]
          ELSE RepairScan(surgs, ths, rms, patient, e, newDay, lastDay, r + 1)

\* a plausible slip: the loops are nested the other way round, rooms outside
\* and days inside
RECURSIVE RoomMajorScan(_, _, _, _, _, _, _, _)
RoomMajorScan(surgs, ths, rms, patient, e, newDay, lastDay, r) ==
  IF r > Len(inst.rooms) THEN [status |-> "fail", enc |-> e]
  ELSE IF newDay > lastDay \/ IsIncompatible(patient, inst.rooms[r].id)
    THEN RoomMajorScan(surgs, ths, rms, patient, e, patient.surgery_release_day,
                       lastDay, r + 1)
  ELSE LET c == FeasibilityChecks(surgs, ths, rms, patient, newDay, inst.rooms[r].id)
       IN IF c = "fail"
            THEN RoomMajorScan(surgs, ths, rms, patient, e, newDay + 1, lastDay, r)
            ELSE [status |-> IF c = "pass" THEN "ok" ELSE "throw",
                  enc |-> [e EXCEPT !.admission_day = newDay,
                                    !.room_id = inst.rooms[r].id]]

repairMandatoryRoomMajor(surgs, ths, rms, patient, e) ==
  RoomMajorScan(surgs, ths, rms, patient, e, patient.surgery_release_day,
                Min(patient.surgery_due_day, inst.days - 1), 1)

repairMandatoryPatient(surgs, ths, rms, patient, e) ==
  RepairScan(surgs, ths, rms, patient, e, patient.surgery_release_day,
             Min(patient.surgery_due_day, inst.days - 1), 1)

\* a plausible slip: the attempt loop never runs
NoAttempts(surgs, ths, rms, patient, e, attempt) == [status |-> "fail", enc |-> e]

RECURSIVE RepairAttempts(_, _, _, _, _, _)
RepairAttempts(surgs, ths, rms, patient, e, attempt) ==
  IF attempt >= MAX_ATTEMPTS THEN [status |-> "fail", enc |-> e]
  ELSE LET r == RepairScan(surgs, ths, rms, patient, e,
                           patient.surgery_release_day, inst.days - 1, 1)
       IN IF r.status = "fail"
            THEN RepairAttempts(surgs, ths, rms, patient, e, attempt + 1)
            ELSE r

\* a plausible slip: the optional repair scans from the first day of the
\* horizon instead of the release day
repairOptionalFromFirstDay(surgs, ths, rms, patient, e) ==
  RepairScan(surgs, ths, rms, patient, e, 0, inst.days - 1, 1)

repairOptionalPatient(surgs, ths, rms, patient, e) ==
  RepairAttempts(surgs, ths, rms, patient, e, 0)

---------------------------------------------------------------------------
(* Nurse application: lines 470-484 of solve, and applyNurses *)

RECURSIVE BlockOffset(_, _)
\* the number of blocks consumed by the nurses before nurse k
BlockOffset(nurses, k) ==
  IF k <= 1 THEN 0
  ELSE BlockOffset(nurses, k - 1) + Len(nurses[k - 1].working_shifts)

NurseAssignments(p, blocks) ==
  [k \in 1..Len(p.nurses) |->
     [id |-> p.nurses[k].id,
      assignments |->
        [j \in 1..Len(p.nurses[k].working_shifts) |->
           [day |-> p.nurses[k].working_shifts[j].day,
            shift |-> p.nurses[k].working_shifts[j].shift,
            rooms |-> blocks[BlockOffset(p.nurses, k) + j]]]]]

---------------------------------------------------------------------------
(* calculateHardConstraintViolations, constraint by constraint.  Every     *)
(* operator reads the decoded state it is given and the original problem.   *)

IdxSet(s) == 1..Len(s)

\* x occurs in the vector s (std::find)
InSeq(s, x) == \E k \in 1..Len(s) : s[k] = x

RoomOccupied(rs, day) ==
  rs.patients_per_day[day] # <<>> \/ rs.occupants_per_day[day] # <<>>

GendersIn(rs, day) ==
  {Pat(rs.patients_per_day[day][k]).gender : k \in IdxSet(rs.patients_per_day[day])}
    \cup {Occ(rs.occupants_per_day[day][k]).gender : k \in IdxSet(rs.occupants_per_day[day])}

H1(rms) ==
  Cardinality({rd \in IdxSet(rms) \X Days :
                 /\ RoomOccupied(rms[rd[1]], rd[2])
                 /\ Cardinality(GendersIn(rms[rd[1]], rd[2])) > 1})

H2(pats) ==
  Cardinality({k \in IdxSet(pats) :
                 /\ pats[k].has_day
                 /\ FindById(inst.patients, pats[k].id) # 0
                 /\ InSeq(Pat(pats[k].id).incompatible_room_ids, pats[k].room)})

\* surgeryTime[day] of the surgeon, lines 1148-1161
SurgeryTime(pats, surgeon_id, day) ==
  SumOver({k \in IdxSet(pats) :
             /\ pats[k].has_day
             /\ pats[k].admission_day = day
             /\ FindById(inst.patients, pats[k].id) # 0
             /\ Pat(pats[k].id).surgeon_id = surgeon_id},
          [k \in IdxSet(pats) |-> Pat(pats[k].id).surgery_duration])

H3(pats) ==
  Cardinality({sd \in IdxSet(inst.surgeons) \X Days :
                 SurgeryTime(pats, inst.surgeons[sd[1]].id, sd[2])
                   > inst.surgeons[sd[1]].max_surgery_time[sd[2]]})

TheaterLoad(ts, day) ==
  SumOver(IdxSet(ts.patients_per_day[day]),
          [k \in IdxSet(ts.patients_per_day[day]) |->
             Pat(ts.patients_per_day[day][k]).surgery_duration])

H4(ths) ==
  Cardinality({td \in IdxSet(ths) \X Days :
                 /\ ths[td[1]].patients_per_day[td[2]] # <<>>
                 /\ FindById(inst.theaters, ths[td[1]].theater_info.id) # 0
                 /\ TheaterLoad(ths[td[1]], td[2])
                      > inst.theaters[FindById(inst.theaters,
                                               ths[td[1]].theater_info.id)].availability[td[2]]})

\* the mandatory patients for which find_if yields end(): H5 reads through it
MissingMandatory(pats) ==
  {k \in IdxSet(inst.patients) :
     inst.patients[k].mandatory /\ FindById(pats, inst.patients[k].id) = 0}

\* the mandatory patients whose first record has no admission day
UnadmittedMandatory(pats) ==
  {k \in IdxSet(inst.patients) :
     /\ inst.patients[k].mandatory
     /\ FindById(pats, inst.patients[k].id) # 0
     /\ ~pats[FindById(pats, inst.patients[k].id)].has_day}

\* a plausible slip: the mandatory test of line 1197 is dropped
H5AnyPatient(pats, u) ==
  Cardinality({k \in IdxSet(inst.patients) :
                 /\ FindById(pats, inst.patients[k].id) # 0
                 /\ ~pats[FindById(pats, inst.patients[k].id)].has_day})
    + (IF u = "novalue" THEN Cardinality(MissingMandatory(pats)) ELSE 0)

\* u is what the read of it->admission_day through end() yields: "value" or
\* "novalue"; the same memory is read for every missing patient
H5(pats, u) ==
  Cardinality(UnadmittedMandatory(pats))
    + (IF u = "novalue" THEN Cardinality(MissingMandatory(pats)) ELSE 0)

H6(pats) ==
  Cardinality({k \in IdxSet(pats) :
                 /\ pats[k].has_day
                 /\ FindById(inst.patients, pats[k].id) # 0
                 /\ \/ pats[k].admission_day < Pat(pats[k].id).surgery_release_day
                    \/ /\ Pat(pats[k].id).mandatory
                       /\ pats[k].admission_day > Pat(pats[k].id).surgery_due_day})

H7(rms) ==
  Cardinality({rd \in IdxSet(rms) \X Days :
                 /\ rms[rd[1]].patients_per_day[rd[2]] # <<>>
                 /\ Len(rms[rd[1]].patients_per_day[rd[2]])
                      + Len(rms[rd[1]].occupants_per_day[rd[2]])
                      > rms[rd[1]].room_info.capacity})

\* a plausible slip: the shift of the assignment is not compared
CoveredOnDay(nurses, room_id, day, shift) ==
  \E n \in IdxSet(nurses) : \E a \in IdxSet(nurses[n].assignments) :
     /\ nurses[n].assignments[a].day = day
     /\ InSeq(nurses[n].assignments[a].rooms, room_id)

\* some nurse's assignment for (day, shift) lists the room
Covered(nurses, room_id, day, shift) ==
  \E n \in IdxSet(nurses) : \E a \in IdxSet(nurses[n].assignments) :
     /\ nurses[n].assignments[a].day = day
     /\ nurses[n].assignments[a].shift = shift
     /\ InSeq(nurses[n].assignments[a].rooms, room_id)

H8(rms, nurses) ==
  Cardinality({rds \in IdxSet(rms) \X Days \X IdxSet(inst.shift_types) :
                 /\ RoomOccupied(rms[rds[1]], rds[2])
                 /\ ~Covered(nurses, rms[rds[1]].room_info.id, rds[2],
                             inst.shift_types[rds[3]])})

HardParts(rms, ths, pats, nurses, u) ==
  << H1(rms), H2(pats), H3(pats), H4(ths), H5(pats, u), H6(pats), H7(rms),
     H8(rms, nurses) >>

---------------------------------------------------------------------------
(* The eight soft penalties.  Each yields [ok, value]: ok is FALSE when the *)
(* function throws.                                                         *)

Val(v) == [ok |-> TRUE, value |-> v]
Thrown == [ok |-> FALSE, value |-> 0]

SetMax(S) == CHOOSE x \in S : \A y \in S : y <= x
SetMin(S) == CHOOSE x \in S : \A y \in S : x <= y

\* 0-based position of x in the vector s, Len(s) when absent (std::find)
RECURSIVE PosFrom(_, _, _)
PosFrom(s, x, k) ==
  IF k > Len(s) THEN Len(s)
  ELSE IF s[k] = x THEN k - 1 ELSE PosFrom(s, x, k + 1)

Pos(s, x) == PosFrom(s, x, 1)

\* the last record with the id: what patientMap[id] holds after lines 598-601
RECURSIVE FindLastFrom(_, _, _)
FindLastFrom(s, id, k) ==
  IF k < 1 THEN 0
  ELSE IF s[k].id = id THEN k ELSE FindLastFrom(s, id, k - 1)

FindLastById(s, id) == FindLastFrom(s, id, Len(s))

\* the age-group indices present; a group the problem does not declare is skipped
AgeIndices(rs, day) ==
  ({Pos(inst.age_groups, Pat(rs.patients_per_day[day][k]).age_group) :
      k \in IdxSet(rs.patients_per_day[day])}
    \cup {Pos(inst.age_groups, Occ(rs.occupants_per_day[day][k]).age_group) :
            k \in IdxSet(rs.occupants_per_day[day])})
    \ {Len(inst.age_groups)}

calculateAgeGroupPenalty(rms) ==
  LET RD == {rd \in IdxSet(rms) \X Days :
               /\ RoomOccupied(rms[rd[1]], rd[2])
               /\ Cardinality(AgeIndices(rms[rd[1]], rd[2])) > 1}
  IN Val(SumOver(RD, [rd \in RD |->
           inst.weights.room_mixed_age
             * (SetMax(AgeIndices(rms[rd[1]], rd[2]))
                  - SetMin(AgeIndices(rms[rd[1]], rd[2])))]))

\* every (nurse, shift assignment, position in its room list)
Coverage(nurses) ==
  UNION {UNION {{<<n, a, r>> : r \in IdxSet(nurses[n].assignments[a].rooms)} :
                  a \in IdxSet(nurses[n].assignments)} :
           n \in IdxSet(nurses)}

\* a plausible slip: a requirement below the nurse's level is subtracted
SignedSkillGap(vec, skillIndex, level) ==
  IF skillIndex >= 0 /\ skillIndex < Len(vec) THEN vec[skillIndex + 1] - level ELSE 0

\* max(0, required - level) at a 0-based slot of a skill vector; a slot
\* outside the vector gives nothing (line 652, line 670)
SkillGap(vec, skillIndex, level) ==
  IF skillIndex >= 0 /\ skillIndex < Len(vec) /\ vec[skillIndex + 1] > level
    THEN vec[skillIndex + 1] - level
    ELSE 0

\* the contribution of one covered room to S2: lines 626-676
RoomSkillGap(rs, pats, sa, level) ==
  LET shiftIndex == Pos(inst.shift_types, sa.shift)
      n == Len(inst.shift_types)
      ps == rs.patients_per_day[sa.day]
      os == rs.occupants_per_day[sa.day]
  IN SumOver(IdxSet(ps), [k \in IdxSet(ps) |->
        SkillGap(Pat(ps[k]).skill_level_required,
                 (sa.day - pats[FindLastById(pats, ps[k])].admission_day) * n + shiftIndex,
                 level)])
     + SumOver(IdxSet(os), [k \in IdxSet(os) |->
        SkillGap(Occ(os[k]).skill_level_required, sa.day * n + shiftIndex, level)])

calculateMinimumSkillPenalty(rms, pats, nurses) ==
  LET C == Coverage(nurses)
      RoomOf(nar) == nurses[nar[1]].assignments[nar[2]].rooms[nar[3]]
      throws ==
        \E nar \in C :
           \/ FindById(inst.nurses, nurses[nar[1]].id) = 0
           \/ FindRoom(rms, RoomOf(nar)) = 0
           \/ \E k \in IdxSet(rms[FindRoom(rms, RoomOf(nar))].patients_per_day[
                                 nurses[nar[1]].assignments[nar[2]].day]) :
                LET pid == rms[FindRoom(rms, RoomOf(nar))].patients_per_day[
                                 nurses[nar[1]].assignments[nar[2]].day][k]
                IN \/ FindLastById(pats, pid) = 0
                   \/ ~pats[FindLastById(pats, pid)].has_day
  IN IF throws THEN Thrown
     ELSE Val(inst.weights.room_nurse_skill
                * SumOver(C, [nar \in C |->
                     RoomSkillGap(rms[FindRoom(rms, RoomOf(nar))], pats,
                                  nurses[nar[1]].assignments[nar[2]],
                                  inst.nurses[FindById(inst.nurses,
                                                       nurses[nar[1]].id)].skill_level)]))

\* the nurses that cover the room on some day of first..last, on some shift
NursesSeen(nurses, room_id, first, last) ==
  {n \in IdxSet(nurses) :
     \E day \in first..last : \E s \in IdxSet(inst.shift_types) :
        \E a \in IdxSet(nurses[n].assignments) :
           /\ nurses[n].assignments[a].day = day
           /\ nurses[n].assignments[a].shift = inst.shift_types[s]
           /\ InSeq(nurses[n].assignments[a].rooms, room_id)}

calculateContinuityOfCarePenalty(rms, pats, nurses) ==
  LET placed == {k \in IdxSet(pats) : pats[k].has_day}
      LastDay(first, los) == Min(first + los, inst.days) - 1
      occThrows ==
        \E k \in IdxSet(inst.occupants) :
           /\ LastDay(0, inst.occupants[k].length_of_stay) >= 0
           /\ inst.shift_types # <<>>
           /\ FindRoom(rms, inst.occupants[k].room_id) = 0
      patThrows ==
        \E k \in placed :
           \/ FindById(inst.patients, pats[k].id) = 0
           \/ /\ LastDay(pats[k].admission_day, Pat(pats[k].id).length_of_stay)
                   >= pats[k].admission_day
              /\ inst.shift_types # <<>>
              /\ FindRoom(rms, pats[k].room) = 0
  IN IF occThrows \/ patThrows THEN Thrown
     ELSE Val(
       SumOver(IdxSet(inst.occupants), [k \in IdxSet(inst.occupants) |->
          inst.weights.continuity_of_care
            * Cardinality({nurses[n].id :
                 n \in NursesSeen(nurses, inst.occupants[k].room_id, 0,
                                  LastDay(0, inst.occupants[k].length_of_stay))})])
       + SumOver(placed, [k \in placed |->
          inst.weights.continuity_of_care
            * Cardinality({nurses[n].id :
                 n \in NursesSeen(nurses, pats[k].room, pats[k].admission_day,
                                  LastDay(pats[k].admission_day,
                                          Pat(pats[k].id).length_of_stay))})]))

\* the first working shift of the nurse with the day and shift, 0 for end()
RECURSIVE FindShiftFrom(_, _, _, _)
FindShiftFrom(ws, day, shift, k) ==
  IF k > Len(ws) THEN 0
  ELSE IF ws[k].day = day /\ ws[k].shift = shift THEN k
       ELSE FindShiftFrom(ws, day, shift, k + 1)

\* 0-based workload slot of a patient: line 911
PatientWorkloadIndex(day, admission_day, shiftIndex) ==
  (day - admission_day) * WORKLOAD_STRIDE + shiftIndex

\* 0-based workload slot of an occupant: line 927
OccupantWorkloadIndex(day, shiftIndex) == day * WORKLOAD_STRIDE + shiftIndex

\* the workload one listed room adds to a shift assignment: lines 891-929.
\* status "throw": a lookup failed or the patient's slot is out of range;
\* status "ub": the occupant's slot is read outside its vector
RoomWorkload(rms, pats, room_id, sa) ==
  LET r == FindRoom(rms, room_id)
      shiftIndex == Pos(inst.shift_types, sa.shift)
      ps == rms[r].patients_per_day[sa.day]
      os == rms[r].occupants_per_day[sa.day]
      PIdx(k) == PatientWorkloadIndex(
                   sa.day, pats[FindById(pats, ps[k])].admission_day, shiftIndex)
      OIdx == OccupantWorkloadIndex(sa.day, shiftIndex)
  IN IF r = 0 THEN [status |-> "throw", load |-> 0]
     ELSE IF \E k \in IdxSet(ps) :
                \/ FindById(pats, ps[k]) = 0
                \/ ~pats[FindById(pats, ps[k])].has_day
                \/ PIdx(k) < 0
                \/ PIdx(k) >= Len(Pat(ps[k]).workload_produced)
       THEN [status |-> "throw", load |-> 0]
     ELSE IF \E k \in IdxSet(os) : OIdx >= Len(Occ(os[k]).workload_produced)
       THEN [status |-> "ub", load |-> 0]
     ELSE [status |-> "ok",
           load |-> SumOver(IdxSet(ps), [k \in IdxSet(ps) |->
                       Pat(ps[k]).workload_produced[PIdx(k) + 1]])
                    + SumOver(IdxSet(os), [k \in IdxSet(os) |->
                       Occ(os[k]).workload_produced[OIdx + 1]])]

\* totalWorkload of one shift assignment
ShiftWorkload(rms, pats, sa) ==
  SumOver(IdxSet(sa.rooms), [k \in IdxSet(sa.rooms) |->
     RoomWorkload(rms, pats, sa.rooms[k], sa).load])

\* status of calculateMaximumWorkloadPenalty: "ok", "throw" or "ub"
WorkloadStatus(rms, pats, nurses) ==
  LET C == Coverage(nurses)
      St(nar) == RoomWorkload(rms, pats,
                              nurses[nar[1]].assignments[nar[2]].rooms[nar[3]],
                              nurses[nar[1]].assignments[nar[2]]).status
      lookupThrows ==
        \E n \in IdxSet(nurses) :
           \/ FindById(inst.nurses, nurses[n].id) = 0
           \/ \E a \in IdxSet(nurses[n].assignments) :
                FindShiftFrom(inst.nurses[FindById(inst.nurses, nurses[n].id)].working_shifts,
                              nurses[n].assignments[a].day,
                              nurses[n].assignments[a].shift, 1) = 0
  IN IF lookupThrows \/ \E nar \in C : St(nar) = "throw" THEN "throw"
     ELSE IF \E nar \in C : St(nar) = "ub" THEN "ub"
     ELSE "ok"

calculateMaximumWorkloadPenalty(rms, pats, nurses) ==
  LET NA == UNION {{<<n, a>> : a \in IdxSet(nurses[n].assignments)} :
                     n \in IdxSet(nurses)}
      MaxLoad(na) ==
        LET ws == inst.nurses[FindById(inst.nurses, nurses[na[1]].id)].working_shifts
            sa == nurses[na[1]].assignments[na[2]]
        IN ws[FindShiftFrom(ws, sa.day, sa.shift, 1)].max_load
      Load(na) == ShiftWorkload(rms, pats, nurses[na[1]].assignments[na[2]])
  IN IF WorkloadStatus(rms, pats, nurses) # "ok" THEN Thrown
     ELSE Val(SumOver(NA, [na \in NA |->
            IF Load(na) > MaxLoad(na)
              THEN (Load(na) - MaxLoad(na)) * inst.weights.nurse_eccessive_workload
              ELSE 0]))

calculateOpenOperatingTheatersPenalty(ths) ==
  Val(inst.weights.open_operating_theater
        * Cardinality({td \in IdxSet(ths) \X Days :
                         ths[td[1]].patients_per_day[td[2]] # <<>>}))

\* the theaters in which the surgeon operates on the day
TheatersOf(ths, surgeon_id, day) ==
  {ths[t].theater_info.id : t \in
     {t \in IdxSet(ths) :
        \E k \in IdxSet(ths[t].patients_per_day[day]) :
           Pat(ths[t].patients_per_day[day][k]).surgeon_id = surgeon_id}}

calculateSurgeonTransferPenalty(ths) ==
  LET SurgeonIds == {inst.patients[k].surgeon_id : k \in IdxSet(inst.patients)}
      SD == {sd \in SurgeonIds \X Days : Cardinality(TheatersOf(ths, sd[1], sd[2])) > 1}
  IN Val(SumOver(SD, [sd \in SD |->
           (Cardinality(TheatersOf(ths, sd[1], sd[2])) - 1)
             * inst.weights.surgeon_transfer]))

\* a plausible slip: the delay is counted from day 0, not from the release day
AdmissionDayAsDelay(pats) ==
  LET placed == {k \in IdxSet(pats) : pats[k].has_day} IN
  IF \E k \in placed : FindById(inst.patients, pats[k].id) = 0 THEN Thrown
  ELSE Val(inst.weights.patient_delay
             * SumOver(placed, [k \in placed |-> pats[k].admission_day]))

calculateAdmissionDelayPenalty(pats) ==
  LET placed == {k \in IdxSet(pats) : pats[k].has_day} IN
  IF \E k \in placed : FindById(inst.patients, pats[k].id) = 0 THEN Thrown
  ELSE Val(inst.weights.patient_delay
             * SumOver(placed, [k \in placed |->
                 IF pats[k].admission_day > Pat(pats[k].id).surgery_release_day
                   THEN pats[k].admission_day - Pat(pats[k].id).surgery_release_day
                   ELSE 0]))

\* a plausible slip: every optional patient is counted, placed or not
UnscheduledCountAll(pats) ==
  LET optional == {k \in IdxSet(inst.patients) : ~inst.patients[k].mandatory} IN
  IF \E k \in optional : FindById(pats, inst.patients[k].id) = 0 THEN Thrown
  ELSE Val(inst.weights.unscheduled_optional * Cardinality(optional))

calculateUnscheduledOptionalPatientsPenalty(pats) ==
  LET optional == {k \in IdxSet(inst.patients) : ~inst.patients[k].mandatory} IN
  IF \E k \in optional : FindById(pats, inst.patients[k].id) = 0 THEN Thrown
  ELSE Val(inst.weights.unscheduled_optional
             * Cardinality({k \in optional :
                              ~pats[FindById(pats, inst.patients[k].id)].has_day}))

\* calculateSoftConstraints: the eight results in the order of the calls
SoftResults(rms, ths, pats, nurses) ==
  << calculateAgeGroupPenalty(rms),
     calculateMinimumSkillPenalty(rms, pats, nurses),
     calculateContinuityOfCarePenalty(rms, pats, nurses),
     calculateMaximumWorkloadPenalty(rms, pats, nurses),
     calculateOpenOperatingTheatersPenalty(ths),
     calculateSurgeonTransferPenalty(ths),
     calculateAdmissionDelayPenalty(pats),
     calculateUnscheduledOptionalPatientsPenalty(pats) >>

\* the values pushed to soft_constraints before the first throw
RECURSIVE PushedBeforeThrow(_, _)
PushedBeforeThrow(rs, k) ==
  IF k > Len(rs) \/ ~rs[k].ok THEN <<>>
  ELSE <<rs[k].value>> \o PushedBeforeThrow(rs, k + 1)

---------------------------------------------------------------------------
(* The encodings a caller passes *)

EncRooms(p) == {p.rooms[k].id : k \in 1..Len(p.rooms)} \cup {"rx"}

Absent == [present |-> FALSE, day |-> 0, room |-> ""]

SlotChoices(p) ==
  {Absent} \cup {[present |-> TRUE, day |-> d, room |-> r] :
                   d \in 0..(p.days - 1), r \in EncRooms(p)}

\* the encoded entries of the patients in the given order, one per present slot
RECURSIVE EntriesOf(_, _, _, _)
EntriesOf(p, order, slots, k) ==
  IF k > Len(order) THEN <<>>
  ELSE (IF slots[order[k]].present
          THEN << [patient_id |-> p.patients[order[k]].id,
                   admission_day |-> slots[order[k]].day,
                   room_id |-> slots[order[k]].room] >>
          ELSE <<>>)
       \o EntriesOf(p, order, slots, k + 1)

Orders(p) ==
  { [k \in 1..Len(p.patients) |-> k],
    [k \in 1..Len(p.patients) |-> Len(p.patients) + 1 - k] }

KnownPatientEntries(p) ==
  {EntriesOf(p, o, sl, 1) :
     o \in Orders(p), sl \in [1..Len(p.patients) -> SlotChoices(p)]}

UnknownEntry == [patient_id |-> "px", admission_day |-> 0, room_id |-> "r2"]

UnknownPatientEntries(p) ==
  {Append(e, UnknownEntry) : e \in {x \in KnownPatientEntries(p) : Len(x) <= 1}}
    \cup {<<UnknownEntry>> \o e : e \in {x \in KnownPatientEntries(p) : Len(x) = 1}}

AllRooms(p) == [k \in 1..Len(p.rooms) |-> p.rooms[k].id]

\* nurse blocks: every block lists every room; no block lists a room; the
\* first block lists an unknown room
FullBlocks(p) == [k \in 1..TotalBlocks(p) |-> AllRooms(p)]
EmptyBlocks(p) == [k \in 1..TotalBlocks(p) |-> <<>>]
BadBlocks(p) == [k \in 1..TotalBlocks(p) |-> IF k = 1 THEN <<"rx">> ELSE AllRooms(p)]

Encodings(p) ==
  {[encoded_patients |-> e, encoded_nurses |-> b] :
     e \in KnownPatientEntries(p), b \in {FullBlocks(p), EmptyBlocks(p)}}
  \cup
  {[encoded_patients |-> e, encoded_nurses |-> b] :
     e \in UnknownPatientEntries(p), b \in {FullBlocks(p)}}
  \cup
  {[encoded_patients |-> e, encoded_nurses |-> b] :
     e \in {x \in KnownPatientEntries(p) : Len(x) <= 1}, b \in {BadBlocks(p)}}

\* the encodings a caller passes after an unrelated call: every patient at
\* its release day in the second room, and in the first room
FollowUps(p) ==
  {[encoded_patients |->
      [k \in 1..Len(p.patients) |->
         [patient_id |-> p.patients[k].id,
          admission_day |-> p.patients[k].surgery_release_day,
          room_id |-> p.rooms[r].id]],
    encoded_nurses |-> FullBlocks(p)] : r \in 1..Len(p.rooms)}

\* what a caller passes to localSearchNurses: both patients in different
\* rooms or in the same room, the mandatory patient left out, the optional
\* patient left out; every block lists none, one or both of the rooms
SearchEntries(p) ==
  LET At(k, r) == [patient_id |-> p.patients[k].id,
                   admission_day |-> p.patients[k].surgery_release_day,
                   room_id |-> p.rooms[r].id]
  IN { <<At(1, 1), At(2, 2)>>, <<At(1, 1), At(2, 1)>>, <<At(2, 2)>>, <<At(1, 1)>> }

BlockChoices(p) == { <<>>, <<p.rooms[1].id>>, <<p.rooms[2].id>>, AllRooms(p) }

SearchEncodings(p) ==
  {[encoded_patients |-> e, encoded_nurses |-> b] :
     e \in SearchEntries(p), b \in [1..TotalBlocks(p) -> BlockChoices(p)]}

EmptyEncoding == [encoded_patients |-> <<>>, encoded_nurses |-> <<>>]

---------------------------------------------------------------------------
(* The state machine *)

Faulted == [kind |-> "fault", hard |-> 0, soft |-> 0]

\* no localSearchNurses call is running
NoSearch ==
  [phase |-> "none", hard0 |-> 0, soft0 |-> 0, i |-> 0, j |-> 0,
   passed |-> <<>>, accepted |-> FALSE]

Init ==
  /\ inst \in ProblemInstances
  /\ surgeons = inst.surgeons
  /\ roomStates = <<>>
  /\ theaterStates = <<>>
  /\ solPatients = <<>>
  /\ solNurses = <<>>
  /\ softConstraints = <<>>
  /\ totalSoft = 0
  /\ enc = EmptyEncoding
  /\ mandatoryEnc = <<>>
  /\ optionalEnc = <<>>
  /\ cur = 0
  /\ pc = "idle"
  /\ result = NoResult
  /\ fault = "none"
  /\ hardParts = <<>>
  /\ ub = "none"
  /\ log = <<>>
  /\ prev = NoResult
  /\ ls = NoSearch

\* a solver constructed on one of the scenario instances
InitScenarios ==
  /\ inst \in ScenarioInstances
  /\ surgeons = inst.surgeons
  /\ roomStates = <<>>
  /\ theaterStates = <<>>
  /\ solPatients = <<>>
  /\ solNurses = <<>>
  /\ softConstraints = <<>>
  /\ totalSoft = 0
  /\ enc = EmptyEncoding
  /\ mandatoryEnc = <<>>
  /\ optionalEnc = <<>>
  /\ cur = 0
  /\ pc = "idle"
  /\ result = NoResult
  /\ fault = "none"
  /\ hardParts = <<>>
  /\ ub = "none"
  /\ log = <<>>
  /\ prev = NoResult
  /\ ls = NoSearch

\* initializeDynamicStates, lines 35-72
InitializeDynamicStates ==
  /\ roomStates' = InitRoomStates(inst)
  /\ theaterStates' = InitTheaterStates(inst)
  /\ solPatients' = <<>>
  /\ solNurses' = <<>>
  /\ softConstraints' = <<>>
  /\ totalSoft' = 0
  /\ surgeons' = ResetSurgeons(surgeons, inst.surgeons)

Returned == pc \in {"done", "fault"}

\* a caller runs the initializer on its own
InitializeAlone ==
  /\ pc \in {"idle", "initialised", "done", "fault"}
  /\ InitializeDynamicStates
  /\ pc' = "initialised"
  /\ result' = NoResult
  /\ fault' = "none"
  /\ hardParts' = <<>>
  /\ ub' = "none"
  /\ log' = <<>>
  /\ prev' = NoResult
  /\ mandatoryEnc' = <<>>
  /\ optionalEnc' = <<>>
  /\ cur' = 0
  /\ enc' = EmptyEncoding
  /\ UNCHANGED <<inst, ls>>

\* what a caller may pass next: any encoding to a solver that has returned
\* nothing yet, and afterwards the same encoding again or a follow-up one
NextEncodings ==
  IF Returned THEN {enc} \cup FollowUps(inst) ELSE Encodings(inst)

\* solve(e) is called: line 379
SolveBegin ==
  /\ pc \in {"idle", "initialised", "done", "fault"}
  /\ \E e \in NextEncodings :
       /\ enc' = e
       /\ prev' = IF Returned /\ e = enc THEN result ELSE NoResult
  /\ InitializeDynamicStates
  /\ pc' = "split"
  /\ result' = NoResult
  /\ fault' = "none"
  /\ hardParts' = <<>>
  /\ ub' = "none"
  /\ log' = <<>>
  /\ mandatoryEnc' = <<>>
  /\ optionalEnc' = <<>>
  /\ cur' = 0
  /\ UNCHANGED <<inst, ls>>

\* a plausible slip: the entries are not split by class, and one loop takes
\* them all in encoding order
RECURSIVE CopiesInEncodingOrder(_, _, _)
CopiesInEncodingOrder(entries, mandatory, k) ==
  IF ~mandatory \/ k > Len(entries) THEN <<>>
  ELSE << [patient_id |-> entries[k].patient_id,
           admission_day |-> entries[k].admission_day,
           room_id |-> entries[k].room_id, pos |-> k] >>
       \o CopiesInEncodingOrder(entries, mandatory, k + 1)

\* the local copies of the entries of one class, each with its position in
\* the caller's encoding (pos is history: the code does not keep it)
RECURSIVE CopiesOf(_, _, _)
CopiesOf(entries, mandatory, k) ==
  IF k > Len(entries) THEN <<>>
  ELSE (IF Pat(entries[k].patient_id).mandatory = mandatory
          THEN << [patient_id |-> entries[k].patient_id,
                   admission_day |-> entries[k].admission_day,
                   room_id |-> entries[k].room_id, pos |-> k] >>
          ELSE <<>>)
       \o CopiesOf(entries, mandatory, k + 1)

\* where solve goes after entry k of the given loop
AfterEntry(phase, k, mand, opt) ==
  IF phase = "mandatory" /\ k < Len(mand) THEN [pc |-> "mandatory", cur |-> k + 1]
  ELSE IF phase = "mandatory" /\ opt # <<>> THEN [pc |-> "optional", cur |-> 1]
  ELSE IF phase = "optional" /\ k < Len(opt) THEN [pc |-> "optional", cur |-> k + 1]
  ELSE [pc |-> "evaluate", cur |-> 0]

Throw(what) ==
  /\ pc' = "fault"
  /\ fault' = what
  /\ result' = Faulted

\* the split loop, lines 382-395
Split ==
  /\ pc = "split"
  /\ IF \E k \in 1..Len(enc.encoded_patients) :
          FindById(inst.patients, enc.encoded_patients[k].patient_id) = 0
       THEN /\ Throw("unknown_patient")
            /\ UNCHANGED <<mandatoryEnc, optionalEnc, cur>>
       ELSE LET mand == CopiesOf(enc.encoded_patients, TRUE, 1)
                opt == CopiesOf(enc.encoded_patients, FALSE, 1)
                nxt == IF mand # <<>> THEN [pc |-> "mandatory", cur |-> 1]
                       ELSE AfterEntry("mandatory", 0, mand, opt)
            IN /\ mandatoryEnc' = mand
               /\ optionalEnc' = opt
               /\ pc' = nxt.pc
               /\ cur' = nxt.cur
               /\ UNCHANGED <<result, fault>>
  /\ UNCHANGED <<ls, inst, surgeons, roomStates, theaterStates, solPatients,
                 solNurses, softConstraints, totalSoft, enc, hardParts, ub, log,
                 prev>>

Unplaced(id) ==
  [id |-> id, has_day |-> FALSE, admission_day |-> 0, room |-> "", theater |-> ""]

Placed(id, day, room, theater) ==
  [id |-> id, has_day |-> TRUE, admission_day |-> day, room |-> room,
   theater |-> theater]

\* the commit of lines 425-428 on the pools given; a throw keeps what the
\* earlier assignments changed
Commit(surgs, ths, rms, pats, patient, e) ==
  LET a1 == assignSurgeon(surgs, patient, e.admission_day)
      a2 == assignOperatingTheater(ths, patient, e.admission_day)
      a3 == assignRoom(rms, patient, e.admission_day, e.room_id)
  IN IF a1.threw
       THEN [fault |-> "unknown_surgeon", surgeons |-> surgs, theaters |-> ths,
             rooms |-> rms, patients |-> pats]
     ELSE IF a2.threw
       THEN [fault |-> "theater_exhausted", surgeons |-> a1.surgeons,
             theaters |-> ths, rooms |-> rms, patients |-> pats]
     ELSE IF a3.threw
       THEN [fault |-> "room_exhausted", surgeons |-> a1.surgeons,
             theaters |-> a2.theaters, rooms |-> a3.rooms, patients |-> pats]
     ELSE [fault |-> "none", surgeons |-> a1.surgeons, theaters |-> a2.theaters,
           rooms |-> a3.rooms,
           patients |-> Append(pats, Placed(patient.id, e.admission_day,
                                            e.room_id, a2.id))]

\* the repair solve calls for the class of the entry
RepairFor(mandatory, surgs, ths, rms, patient, e) ==
  IF mandatory THEN repairMandatoryPatient(surgs, ths, rms, patient, e)
  ELSE repairOptionalPatient(surgs, ths, rms, patient, e)

\* a plausible slip: the surgeon's time is taken before the outcome of the
\* checks and the repair is known
ProcessEntryEagerSurgeon(mandatory, surgs, ths, rms, pats, e) ==
  LET patient == Pat(e.patient_id)
      c == FeasibilityChecks(surgs, ths, rms, patient, e.admission_day, e.room_id)
      rep == RepairFor(mandatory, surgs, ths, rms, patient, e)
      same == [surgeons |-> surgs, theaters |-> ths, rooms |-> rms]
  IN IF c = "throw" \/ (c = "fail" /\ rep.status = "throw")
       THEN same @@ [fault |-> "unknown_surgeon", patients |-> pats, entry |-> e,
                     repaired |-> FALSE]
     ELSE IF c = "fail" /\ rep.status = "fail"
       THEN [surgeons |-> assignSurgeon(surgs, patient, e.admission_day).surgeons,
             theaters |-> ths, rooms |-> rms, fault |-> "none",
             patients |-> Append(pats, Unplaced(patient.id)),
             entry |-> rep.enc, repaired |-> FALSE]
     ELSE LET e2 == IF c = "pass" THEN e ELSE rep.enc IN
          Commit(surgs, ths, rms, pats, patient, e2)
            @@ [entry |-> e2, repaired |-> (c = "fail")]

\* one pass of the loop body of lines 398-429 (mandatory) or 432-462
\* (optional) over the local entry e: what it leaves behind
ProcessEntry(mandatory, surgs, ths, rms, pats, e) ==
  LET patient == Pat(e.patient_id)
      c == FeasibilityChecks(surgs, ths, rms, patient, e.admission_day, e.room_id)
      rep == RepairFor(mandatory, surgs, ths, rms, patient, e)
      same == [surgeons |-> surgs, theaters |-> ths, rooms |-> rms]
      UnknownId ==
        IF checkSurgeonAvailability(surgs, patient, e.admission_day) = "throw"
          THEN "unknown_surgeon" ELSE "unknown_room"
  IN IF c = "throw"
       THEN same @@ [fault |-> UnknownId, patients |-> pats, entry |-> e,
                     repaired |-> FALSE]
     ELSE IF c = "fail" /\ rep.status = "throw"
       THEN same @@ [fault |-> "unknown_surgeon", patients |-> pats,
                     entry |-> rep.enc, repaired |-> FALSE]
     ELSE IF c = "fail" /\ rep.status = "fail"
       THEN same @@ [fault |-> "none", patients |-> Append(pats, Unplaced(patient.id)),
                     entry |-> rep.enc, repaired |-> FALSE]
     ELSE LET e2 == IF c = "pass" THEN e ELSE rep.enc IN
          Commit(surgs, ths, rms, pats, patient, e2)
            @@ [entry |-> e2, repaired |-> (c = "fail")]

LogRecord(mandatory, e, step) ==
  [pos |-> e.pos, id |-> e.patient_id, mandatory |-> mandatory,
   repaired |-> step.repaired,
   placed |-> (step.fault = "none" /\ Len(step.patients) > 0
                 /\ step.patients[Len(step.patients)].has_day)]

\* the effect of one loop pass on the solver
Apply(step, phase, mandatory, e) ==
  /\ surgeons' = step.surgeons
  /\ theaterStates' = step.theaters
  /\ roomStates' = step.rooms
  /\ solPatients' = step.patients
  /\ log' = Append(log, LogRecord(mandatory, e, step))
  /\ IF step.fault # "none"
       THEN /\ Throw(step.fault)
            /\ UNCHANGED cur
       ELSE /\ pc' = AfterEntry(phase, cur, mandatoryEnc, optionalEnc).pc
            /\ cur' = AfterEntry(phase, cur, mandatoryEnc, optionalEnc).cur
            /\ UNCHANGED <<result, fault>>

\* lines 398-429
ProcessMandatory ==
  /\ pc = "mandatory"
  /\ \E step \in {ProcessEntry(TRUE, surgeons, theaterStates, roomStates,
                               solPatients, mandatoryEnc[cur])} :
        /\ Apply(step, "mandatory", TRUE, mandatoryEnc[cur])
        /\ mandatoryEnc' = [mandatoryEnc EXCEPT ![cur] = step.entry]
  /\ UNCHANGED <<ls, inst, solNurses, softConstraints, totalSoft, enc, optionalEnc,
                 hardParts, ub, prev>>

\* lines 432-462
ProcessOptional ==
  /\ pc = "optional"
  /\ \E step \in {ProcessEntry(FALSE, surgeons, theaterStates, roomStates,
                               solPatients, optionalEnc[cur])} :
        /\ Apply(step, "optional", FALSE, optionalEnc[cur])
        /\ optionalEnc' = [optionalEnc EXCEPT ![cur] = step.entry]
  /\ UNCHANGED <<ls, inst, solNurses, softConstraints, totalSoft, enc, mandatoryEnc,
                 hardParts, ub, prev>>

\* what the read of it->admission_day through end() (line 1202) can yield:
\* an engaged optional, a disengaged one, or a crash
EndReadOutcomes(pats) ==
  IF MissingMandatory(pats) = {} THEN {"none"} ELSE {"value", "novalue", "crash"}

\* lines 464-490: the nurse blocks are applied, then the hard count and the
\* soft penalties are computed
Evaluate ==
  /\ pc = "evaluate"
  /\ \E u \in EndReadOutcomes(solPatients) :
     \E na \in {NurseAssignments(inst, enc.encoded_nurses)} :
     \E hp \in {HardParts(roomStates, theaterStates, solPatients, na, u)} :
     \E pushed \in {PushedBeforeThrow(
                      SoftResults(roomStates, theaterStates, solPatients, na), 1)} :
        /\ solNurses' = na
        /\ ub' = u
        /\ IF u = "crash"
             THEN /\ pc' = "crashed"
                  /\ fault' = "crash"
                  /\ result' = Faulted
                  /\ UNCHANGED <<hardParts, softConstraints, totalSoft>>
           ELSE IF Len(pushed) < 8
             THEN /\ Throw("evaluation")
                  /\ hardParts' = hp
                  /\ softConstraints' = pushed
                  /\ UNCHANGED totalSoft
           ELSE /\ pc' = "done"
                /\ hardParts' = hp
                /\ softConstraints' = pushed
                /\ totalSoft' = SumSeq(pushed)
                /\ result' = Score(SumSeq(hp), SumSeq(pushed))
                /\ UNCHANGED fault
  /\ cur' = 0
  /\ UNCHANGED <<ls, inst, surgeons, roomStates, theaterStates, solPatients, enc,
                 mandatoryEnc, optionalEnc, log, prev>>

Next ==
  \/ InitializeAlone
  \/ SolveBegin
  \/ Split
  \/ ProcessMandatory
  \/ ProcessOptional
  \/ Evaluate

Spec == Init /\ [][Next]_vars

SpecScenarios == InitScenarios /\ [][Next]_vars

\* a solver constructed on the instance with two shift types
InitShifts ==
  /\ inst = TwoShiftProblem
  /\ surgeons = inst.surgeons
  /\ roomStates = <<>>
  /\ theaterStates = <<>>
  /\ solPatients = <<>>
  /\ solNurses = <<>>
  /\ softConstraints = <<>>
  /\ totalSoft = 0
  /\ enc = EmptyEncoding
  /\ mandatoryEnc = <<>>
  /\ optionalEnc = <<>>
  /\ cur = 0
  /\ pc = "idle"
  /\ result = NoResult
  /\ fault = "none"
  /\ hardParts = <<>>
  /\ ub = "none"
  /\ log = <<>>
  /\ prev = NoResult
  /\ ls = NoSearch

SpecShifts == InitShifts /\ [][Next]_vars

---------------------------------------------------------------------------
(* localSearchNurses, lines 1371-1408, with applyNurses (1331-1347) and     *)
(* computeNurseOnlyCosts (1349-1369)                                         *)

\* a solver constructed on the instance of the nurse search
InitNurses ==
  /\ inst = NurseSearchProblem
  /\ surgeons = inst.surgeons
  /\ roomStates = <<>>
  /\ theaterStates = <<>>
  /\ solPatients = <<>>
  /\ solNurses = <<>>
  /\ softConstraints = <<>>
  /\ totalSoft = 0
  /\ enc = EmptyEncoding
  /\ mandatoryEnc = <<>>
  /\ optionalEnc = <<>>
  /\ cur = 0
  /\ pc = "idle"
  /\ result = NoResult
  /\ fault = "none"
  /\ hardParts = <<>>
  /\ ub = "none"
  /\ log = <<>>
  /\ prev = NoResult
  /\ ls = NoSearch

\* blockMeta: the (day, shift) of every block, nurse by nurse
RECURSIVE BlockMeta(_, _)
BlockMeta(nurses, k) ==
  IF k > Len(nurses) THEN <<>>
  ELSE [j \in 1..Len(nurses[k].working_shifts) |->
          [day |-> nurses[k].working_shifts[j].day,
           shift |-> nurses[k].working_shifts[j].shift]]
       \o BlockMeta(nurses, k + 1)

\* a plausible slip: the test on (day, shift) is left out and every pair of
\* blocks is a candidate
RECURSIVE AnyPairFrom(_, _, _)
AnyPairFrom(meta, i, j) ==
  IF i > Len(meta) THEN [i |-> 0, j |-> 0]
  ELSE IF j > Len(meta) THEN AnyPairFrom(meta, i + 1, i + 2)
  ELSE [i |-> i, j |-> j]

\* the two loops of lines 1388-1391 from (i, j) on: the next pair i < j of
\* blocks with the same (day, shift), i = 0 when the loops are over
RECURSIVE CandidateFrom(_, _, _)
CandidateFrom(meta, i, j) ==
  IF i > Len(meta) THEN [i |-> 0, j |-> 0]
  ELSE IF j > Len(meta) THEN CandidateFrom(meta, i + 1, i + 2)
  ELSE IF meta[i] = meta[j] THEN [i |-> i, j |-> j]
  ELSE CandidateFrom(meta, i, j + 1)

\* std::swap of two blocks
Swap(blocks, i, j) == [blocks EXCEPT ![i] = blocks[j], ![j] = blocks[i]]

\* a plausible slip: a rejected swap is not undone
NoRevert(blocks, i, j) == blocks

\* line 1401
Revert(blocks, i, j) == Swap(blocks, i, j)

\* a plausible slip: a swap that ties with the initial pair is accepted
ImprovesOrTies(hardNew, softNew, hard0, soft0) ==
  hardNew < hard0 \/ (hardNew = hard0 /\ softNew <= soft0)

\* a plausible slip: only the soft totals are compared
ImprovesOnSoft(hardNew, softNew, hard0, soft0) == softNew < soft0

\* the acceptance test of line 1397
Improves(hardNew, softNew, hard0, soft0) ==
  hardNew < hard0 \/ (hardNew = hard0 /\ softNew < soft0)

\* isBetterFitness, lines 1323-1329, on (hard, soft) pairs
isBetterFitness(candidate, best) ==
  IF candidate.hard < best.hard THEN TRUE
  ELSE IF candidate.hard = best.hard /\ candidate.soft < best.soft THEN TRUE
  ELSE FALSE

\* applyNurses: solution.nurses rebuilt from the blocks
applyNurses(p, blocks) == NurseAssignments(p, blocks)

\* computeNurseOnlyCosts on the decoded state with the read of H5 yielding u:
\* S2, S3 and S4 are recomputed and stored, the total is re-accumulated, then
\* the hard count is taken
computeNurseOnlyCosts(rms, ths, pats, nurses, soft, u) ==
  LET s2 == calculateMinimumSkillPenalty(rms, pats, nurses)
      s3 == calculateContinuityOfCarePenalty(rms, pats, nurses)
      s4 == calculateMaximumWorkloadPenalty(rms, pats, nurses)
      stored == [soft EXCEPT ![2] = s2.value, ![3] = s3.value, ![4] = s4.value]
      hp == HardParts(rms, ths, pats, nurses, u)
  IN IF ~(s2.ok /\ s3.ok /\ s4.ok)
       THEN [status |-> "throw", soft |-> soft, total |-> SumSeq(soft),
             hardParts |-> <<>>, hard |-> 0]
     ELSE IF u = "crash"
       THEN [status |-> "crash", soft |-> stored, total |-> SumSeq(stored),
             hardParts |-> <<>>, hard |-> 0]
     ELSE [status |-> "ok", soft |-> stored, total |-> SumSeq(stored),
           hardParts |-> hp, hard |-> SumSeq(hp)]

\* localSearchNurses(e) is called and calls solve(e): line 1373
LSBegin ==
  /\ pc = "idle"
  /\ \E e \in SearchEncodings(inst) :
       /\ enc' = e
       /\ ls' = [NoSearch EXCEPT !.phase = "solve", !.passed = e.encoded_nurses]
  /\ InitializeDynamicStates
  /\ pc' = "split"
  /\ result' = NoResult
  /\ fault' = "none"
  /\ hardParts' = <<>>
  /\ ub' = "none"
  /\ log' = <<>>
  /\ prev' = NoResult
  /\ mandatoryEnc' = <<>>
  /\ optionalEnc' = <<>>
  /\ cur' = 0
  /\ UNCHANGED inst

\* solve has returned (hard0, soft0); blockMeta is built and the loops start:
\* lines 1373-1388
LSCollect ==
  /\ pc = "done"
  /\ ls.phase = "solve"
  /\ \E first \in {CandidateFrom(BlockMeta(inst.nurses, 1), 1, 2)} :
       ls' = [ls EXCEPT !.phase = "search", !.hard0 = result.hard,
                        !.soft0 = result.soft, !.i = first.i, !.j = first.j]
  /\ pc' = "search"
  /\ UNCHANGED <<inst, surgeons, roomStates, theaterStates, solPatients, solNurses,
                 softConstraints, totalSoft, enc, mandatoryEnc, optionalEnc, cur,
                 result, fault, hardParts, ub, log, prev>>

\* one pass of the inner loop body for the candidate (i, j): lines 1393-1401
LSTry ==
  /\ pc = "search"
  /\ ls.i # 0
  /\ \E u \in EndReadOutcomes(solPatients) :
     \E swapped \in {Swap(enc.encoded_nurses, ls.i, ls.j)} :
     \E na \in {applyNurses(inst, swapped)} :
     \E c \in {computeNurseOnlyCosts(roomStates, theaterStates, solPatients, na,
                                     softConstraints, u)} :
        /\ solNurses' = na
        /\ softConstraints' = c.soft
        /\ totalSoft' = c.total
        /\ IF c.status = "throw"
             THEN /\ Throw("evaluation")
                  /\ enc' = [enc EXCEPT !.encoded_nurses = swapped]
                  /\ UNCHANGED <<hardParts, ub, ls>>
           ELSE IF c.status = "crash"
             THEN /\ pc' = "crashed"
                  /\ fault' = "crash"
                  /\ result' = Faulted
                  /\ ub' = u
                  /\ enc' = [enc EXCEPT !.encoded_nurses = swapped]
                  /\ UNCHANGED <<hardParts, ls>>
           ELSE IF Improves(c.hard, c.total, ls.hard0, ls.soft0)
             THEN /\ pc' = "ls_done"
                  /\ result' = Score(c.hard, c.total)
                  /\ hardParts' = c.hardParts
                  /\ ub' = u
                  /\ enc' = [enc EXCEPT !.encoded_nurses = swapped]
                  /\ ls' = [ls EXCEPT !.phase = "returned", !.accepted = TRUE]
                  /\ UNCHANGED fault
           ELSE \E nxt \in {CandidateFrom(BlockMeta(inst.nurses, 1), ls.i, ls.j + 1)} :
                  /\ pc' = "search"
                  /\ hardParts' = c.hardParts
                  /\ ub' = u
                  /\ enc' = [enc EXCEPT !.encoded_nurses = Revert(swapped, ls.i, ls.j)]
                  /\ ls' = [ls EXCEPT !.i = nxt.i, !.j = nxt.j]
                  /\ UNCHANGED <<result, fault>>
  /\ UNCHANGED <<inst, surgeons, roomStates, theaterStates, solPatients,
                 mandatoryEnc, optionalEnc, cur, log, prev>>

\* the loops are over without an accepted swap: line 1406
LSReturn ==
  /\ pc = "search"
  /\ ls.i = 0
  /\ pc' = "ls_done"
  /\ result' = Score(ls.hard0, ls.soft0)
  /\ ls' = [ls EXCEPT !.phase = "returned"]
  /\ UNCHANGED <<inst, surgeons, roomStates, theaterStates, solPatients, solNurses,
                 softConstraints, totalSoft, enc, mandatoryEnc, optionalEnc, cur,
                 fault, hardParts, ub, log, prev>>

NextNurses ==
  \/ LSBegin
  \/ Split
  \/ ProcessMandatory
  \/ ProcessOptional
  \/ Evaluate
  \/ LSCollect
  \/ LSTry
  \/ LSReturn

SpecNurses == InitNurses /\ [][NextNurses]_vars

\* the caller passes the encoding localSearchNurses left behind to solve
SolveAfterSearch ==
  /\ pc = "ls_done"
  /\ ls.phase = "returned"
  /\ prev' = result
  /\ ls' = [ls EXCEPT !.phase = "resolve"]
  /\ InitializeDynamicStates
  /\ pc' = "split"
  /\ result' = NoResult
  /\ fault' = "none"
  /\ hardParts' = <<>>
  /\ ub' = "none"
  /\ log' = <<>>
  /\ mandatoryEnc' = <<>>
  /\ optionalEnc' = <<>>
  /\ cur' = 0
  /\ UNCHANGED <<inst, enc>>

NextResolve ==
  \/ LSBegin
  \/ Split
  \/ ProcessMandatory
  \/ ProcessOptional
  \/ Evaluate
  \/ LSCollect
  \/ LSTry
  \/ LSReturn
  \/ SolveAfterSearch

SpecResolve == InitNurses /\ [][NextResolve]_vars

---------------------------------------------------------------------------
(* Properties of solve *)

\* C1: a solve that returns after an earlier returned solve of the same
\* encoding on the same solver returns what the earlier one returned: the
\* same (hard, soft) pair
C1_RepeatedSolveReturnsSamePair ==
  (Returned /\ prev # NoResult) => result = prev

\* the record solve decoded for the entry logged at k
DecodedFor(k) == solPatients[FindById(solPatients, log[k].id)]

\* C2: once solve has returned a score, the caller's entry of every patient
\* that a repair relocated holds the admission day and the room of the
\* patient's decoded record
C2_CallerEntryHoldsRepair ==
  pc = "done" =>
    \A k \in 1..Len(log) :
       (log[k].repaired /\ log[k].placed) =>
          /\ enc.encoded_patients[log[k].pos].admission_day
               = DecodedFor(k).admission_day
          /\ enc.encoded_patients[log[k].pos].room_id = DecodedFor(k).room

\* C3: in every state, on every day on which a room holds an assigned
\* patient, its assigned patients and its occupants of that day together do
\* not exceed its capacity
C3_OccupancyWithinCapacity ==
  \A k \in IdxSet(roomStates) : \A d \in Days :
     roomStates[k].patients_per_day[d] # <<>> =>
        Len(roomStates[k].patients_per_day[d])
          + Len(roomStates[k].occupants_per_day[d])
            <= roomStates[k].room_info.capacity

\* a room shared by an occupant and an assigned patient is exactly full
C3_Witness ==
  \E k \in IdxSet(roomStates) : \E d \in Days :
     /\ roomStates[k].patients_per_day[d] # <<>>
     /\ roomStates[k].occupants_per_day[d] # <<>>
     /\ Len(roomStates[k].patients_per_day[d])
          + Len(roomStates[k].occupants_per_day[d])
            = roomStates[k].room_info.capacity

\* the class of the encoded entry at position q of the caller's encoding
EntryIsMandatory(q) ==
  /\ FindById(inst.patients, enc.encoded_patients[q].patient_id) # 0
  /\ Pat(enc.encoded_patients[q].patient_id).mandatory

\* entry q comes before entry r in the processing order: mandatory
\* entries first, encoding order within a class
ComesBefore(q, r) ==
  \/ EntryIsMandatory(q) /\ ~EntryIsMandatory(r)
  \/ EntryIsMandatory(q) = EntryIsMandatory(r) /\ q < r

\* C4: the entries solve has processed so far are entries of the encoding,
\* each processed once, and every entry that comes before a processed one
\* (a mandatory entry before an optional one, an earlier entry of the same
\* class) was processed before it
C4_MandatoryFirstInEncodingOrder ==
  \A j \in 1..Len(log) :
     /\ log[j].pos \in 1..Len(enc.encoded_patients)
     /\ log[j].id = enc.encoded_patients[log[j].pos].patient_id
     /\ \A q \in 1..Len(enc.encoded_patients) :
           ComesBefore(q, log[j].pos) <=> (\E i \in 1..(j - 1) : log[i].pos = q)

\* an encoding that names an optional patient first was processed to the end
C4_Witness ==
  /\ pc = "done"
  /\ Len(log) = 3
  /\ ~EntryIsMandatory(1)
  /\ EntryIsMandatory(2) /\ EntryIsMandatory(3)
  /\ log[3].pos = 1

\* the record solve pushed in this step
NewRecord == solPatients'[Len(solPatients')]

\* what C5 asks of one step of the two entry loops
CommitFollowsChecks ==
  pc \in {"mandatory", "optional"} =>
    /\ fault' \notin {"theater_exhausted", "room_exhausted"}
    /\ (Len(solPatients') = Len(solPatients) + 1 /\ NewRecord.has_day) =>
          /\ checkSurgeonAvailability(surgeons, Pat(NewRecord.id),
                                      NewRecord.admission_day) = "pass"
          /\ checkOperatingTheaterAvailability(theaterStates, Pat(NewRecord.id),
                                               NewRecord.admission_day) = "pass"
          /\ checkRoomAvailability(roomStates, Pat(NewRecord.id),
                                   NewRecord.admission_day, NewRecord.room) = "pass"

\* C5: no step of solve ends in the capacity-exhausted fault of
\* assignOperatingTheater or of assignRoom, and a step that records a
\* placement does so for a day and a room for which the surgeon, theater and
\* room checks pass on the pools the step started from
C5_CommitAfterChecks == [][CommitFollowsChecks]_vars

\* all three patients were committed, the last one into a theater day and a
\* room day that its commit drained
C5_Witness ==
  /\ pc = "done"
  /\ Len(solPatients) = 3
  /\ \A k \in 1..3 : solPatients[k].has_day
  /\ \E t \in IdxSet(theaterStates) :
        /\ theaterStates[t].theater_info.id = solPatients[3].theater
        /\ theaterStates[t].availability_per_day[solPatients[3].admission_day] = 0
  /\ \E r \in IdxSet(roomStates) :
        /\ roomStates[r].room_info.id = solPatients[3].room
        /\ roomStates[r].capacity_per_day[solPatients[3].admission_day] = 0

\* the local entry the running loop is at
CurrentEntry == IF pc = "mandatory" THEN mandatoryEnc[cur] ELSE optionalEnc[cur]

CurrentPatient == Pat(CurrentEntry.patient_id)

\* the three checks, each on its own, for a day and a room on the pools of
\* the state
AllChecksPass(patient, day, room_id) ==
  /\ checkSurgeonAvailability(surgeons, patient, day) = "pass"
  /\ checkOperatingTheaterAvailability(theaterStates, patient, day) = "pass"
  /\ checkRoomAvailability(roomStates, patient, day, room_id) = "pass"

\* a repair that reports success left a day and a room in the entry for
\* which the three checks pass
RepairLeavesFeasible(rep, patient) ==
  rep.status = "ok" =>
    AllChecksPass(patient, rep.enc.admission_day, rep.enc.room_id)

\* C6: at every entry the loops of solve reach, repairMandatoryPatient and
\* repairOptionalPatient called on that entry with the pools of that moment
\* either do not report success or leave a day and a room for which
\* checkSurgeonAvailability, checkOperatingTheaterAvailability and
\* checkRoomAvailability all pass on those pools
C6_RepairSound ==
  pc \in {"mandatory", "optional"} =>
    /\ RepairLeavesFeasible(
         repairMandatoryPatient(surgeons, theaterStates, roomStates,
                                CurrentPatient, CurrentEntry), CurrentPatient)
    /\ RepairLeavesFeasible(
         repairOptionalPatient(surgeons, theaterStates, roomStates,
                               CurrentPatient, CurrentEntry), CurrentPatient)

\* an optional entry whose encoded placement fails a check is about to be
\* relocated to another day and room, after a mandatory entry was relocated
C6_Witness ==
  /\ pc = "optional"
  /\ FeasibilityChecks(surgeons, theaterStates, roomStates, CurrentPatient,
                       CurrentEntry.admission_day, CurrentEntry.room_id) = "fail"
  /\ \E rep \in {repairOptionalPatient(surgeons, theaterStates, roomStates,
                                       CurrentPatient, CurrentEntry)} :
        /\ rep.status = "ok"
        /\ rep.enc.admission_day # CurrentEntry.admission_day
        /\ rep.enc.room_id # CurrentEntry.room_id
  /\ \E k \in 1..Len(log) : log[k].mandatory /\ log[k].repaired /\ log[k].placed

\* the occupants of a room that are still there on day d
OccupantsOn(room_id, d) ==
  {k \in IdxSet(inst.occupants) :
     inst.occupants[k].room_id = room_id /\ inst.occupants[k].length_of_stay > d}

\* C7: whenever initializeDynamicStates has just run (on its own or as the
\* first step of solve, on a fresh solver or after earlier calls), every
\* room's remaining capacity on each day is its capacity minus its occupants
\* still present that day, every theater's availability is the declared one,
\* all patient lists and the decoded solution are empty, and the surgeons'
\* budgets are the original ones
C7_InitializerYieldsFreshState ==
  pc \in {"split", "initialised"} =>
    /\ Len(roomStates) = Len(inst.rooms)
    /\ \A k \in IdxSet(roomStates) : \A d \in Days :
          /\ roomStates[k].room_info = inst.rooms[k]
          /\ roomStates[k].capacity_per_day[d]
               = inst.rooms[k].capacity
                   - Cardinality(OccupantsOn(inst.rooms[k].id, d))
          /\ Len(roomStates[k].occupants_per_day[d])
               = Cardinality(OccupantsOn(inst.rooms[k].id, d))
          /\ roomStates[k].patients_per_day[d] = <<>>
    /\ Len(theaterStates) = Len(inst.theaters)
    /\ \A k \in IdxSet(theaterStates) : \A d \in Days :
          /\ theaterStates[k].availability_per_day[d]
               = inst.theaters[k].availability[d]
          /\ theaterStates[k].patients_per_day[d] = <<>>
    /\ solPatients = <<>>
    /\ solNurses = <<>>
    /\ softConstraints = <<>>
    /\ totalSoft = 0
    /\ surgeons = inst.surgeons

\* the initializer has run as the first step of a solve that follows a
\* scored solve of an encoding naming all three patients
C7_Witness ==
  /\ pc = "split"
  /\ prev.kind = "score"
  /\ Len(enc.encoded_patients) = 3

\* the encoding names a patient, a surgeon (through a patient) or a room the
\* problem definition does not hold
NamesUnknownId(e) ==
  \/ \E k \in 1..Len(e.encoded_patients) :
        \/ FindById(inst.patients, e.encoded_patients[k].patient_id) = 0
        \/ /\ FindById(inst.patients, e.encoded_patients[k].patient_id) # 0
           /\ FindById(inst.surgeons,
                       Pat(e.encoded_patients[k].patient_id).surgeon_id) = 0
        \/ FindById(inst.rooms, e.encoded_patients[k].room_id) = 0
  \/ \E b \in 1..Len(e.encoded_nurses) : \E j \in 1..Len(e.encoded_nurses[b]) :
        FindById(inst.rooms, e.encoded_nurses[b][j]) = 0

\* C8: solve returns no score for an encoding that names an unknown patient,
\* a patient with an unknown surgeon, or an unknown room in a patient entry
\* or a nurse block
C8_UnknownIdAborts ==
  pc = "done" => ~NamesUnknownId(enc)

\* the mandatory patients of the problem definition with no admission day in
\* the decoded solution: no record, or a record without a day
MandatoryWithoutDay ==
  {k \in IdxSet(inst.patients) :
     /\ inst.patients[k].mandatory
     /\ \/ FindById(solPatients, inst.patients[k].id) = 0
        \/ ~solPatients[FindById(solPatients, inst.patients[k].id)].has_day}

\* C9: when the hard count has been computed for a decoded solution in which
\* a mandatory patient has no admission day, the evaluation ends with a score
\* and H5 counts one violation for each such patient
C9_UnadmittedMandatoryCounted ==
  (pc \in {"done", "crashed"} /\ MandatoryWithoutDay # {}) =>
     /\ pc = "done"
     /\ hardParts[5] = Cardinality(MandatoryWithoutDay)

\* no day from the release day to the end of the horizon and no compatible
\* room passes the three checks for the patient, and the encoded placement of
\* its entry fails a check
NoFeasiblePlacement(patient, e) ==
  /\ FeasibilityChecks(surgeons, theaterStates, roomStates, patient,
                       e.admission_day, e.room_id) = "fail"
  /\ \A d \in patient.surgery_release_day..(inst.days - 1) :
     \A r \in IdxSet(inst.rooms) :
        ~IsIncompatible(patient, inst.rooms[r].id) =>
           ~AllChecksPass(patient, d, inst.rooms[r].id)

\* what C10 asks of the step that processes an optional entry
UnplacedWhenInfeasible ==
  (pc = "optional" /\ NoFeasiblePlacement(CurrentPatient, CurrentEntry)) =>
     /\ solPatients' = Append(solPatients, Unplaced(CurrentEntry.patient_id))
     /\ UNCHANGED <<surgeons, theaterStates, roomStates>>
     /\ pc' # "fault"

\* the records without an admission day of optional patients
UnplacedOptional ==
  {k \in IdxSet(solPatients) :
     ~solPatients[k].has_day /\ ~Pat(solPatients[k].id).mandatory}

\* the decoded records without record k
Without(pats, k) == SubSeq(pats, 1, k - 1) \o SubSeq(pats, k + 1, Len(pats))

\* what C10 asks of the score: S8 is the weight times the number of unplaced
\* optional patients, and the hard count is what it is without the record
UnplacedOptionalCost ==
  pc = "done" =>
    /\ softConstraints[8]
         = inst.weights.unscheduled_optional * Cardinality(UnplacedOptional)
    /\ \A k \in UnplacedOptional :
          HardParts(roomStates, theaterStates, Without(solPatients, k),
                    solNurses, ub) = hardParts

\* C10: an optional entry whose encoded placement fails a check and for whose
\* patient no day in [release day, horizon) with a compatible room passes the
\* three checks is recorded without an admission day and leaves the pools as
\* they are; in the score each such record adds the unscheduled weight once
\* to S8 and nothing to the hard count
C10_UnplacedOptional ==
  [][UnplacedWhenInfeasible]_vars /\ [](UnplacedOptionalCost)

\* a scored solve in which the optional patient had no feasible placement
C10_Witness ==
  /\ pc = "done"
  /\ UnplacedOptional # {}
  /\ softConstraints[8] = inst.weights.unscheduled_optional
  /\ \E k \in 1..Len(log) : ~log[k].mandatory /\ log[k].repaired = FALSE
                               /\ ~log[k].placed

---------------------------------------------------------------------------
(* Scenarios of solve                                                       *)

\* the instance has one mandatory patient, one room of capacity 2 without
\* occupants, one theater and one surgeon with enough time on the release day
SingleMandatoryInstance ==
  /\ Len(inst.patients) = 1 /\ inst.patients[1].mandatory
  /\ Len(inst.rooms) = 1 /\ inst.rooms[1].capacity = 2
  /\ inst.occupants = <<>>
  /\ Len(inst.theaters) = 1 /\ Len(inst.surgeons) = 1
  /\ inst.patients[1].surgeon_id = inst.surgeons[1].id
  /\ inst.theaters[1].availability[inst.patients[1].surgery_release_day]
       >= inst.patients[1].surgery_duration
  /\ inst.surgeons[1].max_surgery_time[inst.patients[1].surgery_release_day]
       >= inst.patients[1].surgery_duration

\* solve has returned for the single patient encoded at its release day in
\* the room, which is compatible
EncodedAtRelease ==
  /\ SingleMandatoryInstance
  /\ pc = "done"
  /\ Len(enc.encoded_patients) = 1
  /\ enc.encoded_patients[1].patient_id = inst.patients[1].id
  /\ enc.encoded_patients[1].admission_day = inst.patients[1].surgery_release_day
  /\ enc.encoded_patients[1].room_id = inst.rooms[1].id
  /\ ~IsIncompatible(inst.patients[1], inst.rooms[1].id)

AdmittedAtReleaseWithoutCost ==
  /\ Len(solPatients) = 1
  /\ solPatients[1].has_day
  /\ solPatients[1].admission_day = inst.patients[1].surgery_release_day
  /\ result.hard = 0
  /\ softConstraints[7] = 0

\* C11, as stated: for a single mandatory patient, one room of capacity 2, one
\* theater and one surgeon with enough time, encoded at the release day in a
\* compatible room, solve gives admission day = release day, no hard
\* violation and S7 = 0
C11_SinglePatientScenario == EncodedAtRelease => AdmittedAtReleaseWithoutCost

\* the nurse blocks cover the room on every shift of every day of the stay
StayCovered ==
  \A d \in Days : \A s \in IdxSet(inst.shift_types) :
     RoomOccupied(roomStates[1], d)
       => Covered(solNurses, inst.rooms[1].id, d, inst.shift_types[s])

\* C11, amended: in that scenario the patient is admitted at its release day
\* and S7 = 0; the hard count is the number of shifts of the stay on which no
\* nurse block lists the room (H8), so it is 0 when every such shift is covered
C11_SinglePatientCovered ==
  EncodedAtRelease =>
    /\ Len(solPatients) = 1
    /\ solPatients[1].has_day
    /\ solPatients[1].admission_day = inst.patients[1].surgery_release_day
    /\ softConstraints[7] = 0
    /\ result.hard = hardParts[8]
    /\ StayCovered => result.hard = 0

C11_Witness ==
  /\ EncodedAtRelease
  /\ inst.patients[1].surgery_release_day > 0
  /\ StayCovered
  /\ result.hard = 0
  /\ softConstraints[7] = 0

\* the days of the stay an entry encodes, clipped to the horizon
EncodedStay(e) ==
  {d \in Days : /\ e.admission_day <= d
                /\ d < e.admission_day + Pat(e.patient_id).length_of_stay}

\* two entries of the encoding name patients of different genders in the
\* same room of the problem on overlapping days
EncodedMixedPair(i, j) ==
  /\ i # j
  /\ FindById(inst.patients, enc.encoded_patients[i].patient_id) # 0
  /\ FindById(inst.patients, enc.encoded_patients[j].patient_id) # 0
  /\ Pat(enc.encoded_patients[i].patient_id).gender
       # Pat(enc.encoded_patients[j].patient_id).gender
  /\ enc.encoded_patients[i].room_id = enc.encoded_patients[j].room_id
  /\ enc.encoded_patients[i].room_id \in {inst.rooms[k].id : k \in IdxSet(inst.rooms)}
  /\ EncodedStay(enc.encoded_patients[i]) \cap EncodedStay(enc.encoded_patients[j]) # {}

EncodesMixedRoom ==
  \E i, j \in IdxSet(enc.encoded_patients) : EncodedMixedPair(i, j)

OccupantsMixed(rms) ==
  {rd \in IdxSet(rms) \X Days :
     Cardinality({Occ(rms[rd[1]].occupants_per_day[rd[2]][k]).gender :
                    k \in IdxSet(rms[rd[1]].occupants_per_day[rd[2]])}) > 1}

AllRoomsIncompatible(patient) ==
  \A r \in IdxSet(inst.rooms) : InSeq(patient.incompatible_room_ids, inst.rooms[r].id)

\* the encoding has an entry for a mandatory patient with no compatible room
EncodedWithoutCompatibleRoom(i) ==
  /\ FindById(inst.patients, enc.encoded_patients[i].patient_id) # 0
  /\ Pat(enc.encoded_patients[i].patient_id).mandatory
  /\ AllRoomsIncompatible(Pat(enc.encoded_patients[i].patient_id))

\* C13, as stated: a mandatory patient whose incompatible-room set contains
\* every room has no admission day after solve and is counted under H5,
\* whatever day and room its encoded entry names
C13_NoCompatibleRoomUnadmitted ==
  pc = "done" =>
    \A i \in IdxSet(enc.encoded_patients) :
       EncodedWithoutCompatibleRoom(i) =>
         /\ FindById(solPatients, enc.encoded_patients[i].patient_id) # 0
         /\ ~solPatients[FindById(solPatients,
                                  enc.encoded_patients[i].patient_id)].has_day
         /\ hardParts[5] >= 1

\* a step of the mandatory loop on a patient with no compatible room: when
\* the encoded placement fails a check the patient is recorded without an
\* admission day, when it passes all three the patient is placed as encoded
NoCompatibleRoomStep ==
  (/\ pc = "mandatory"
   /\ AllRoomsIncompatible(CurrentPatient)
   /\ solPatients' # solPatients)
  =>
  LET c == FeasibilityChecks(surgeons, theaterStates, roomStates, CurrentPatient,
                             CurrentEntry.admission_day, CurrentEntry.room_id)
  IN /\ c \in {"pass", "fail"}
     /\ c = "fail" => /\ NewRecord.id = CurrentPatient.id
                      /\ ~NewRecord.has_day
     /\ c = "pass" => /\ NewRecord.id = CurrentPatient.id
                      /\ NewRecord.has_day
                      /\ NewRecord.admission_day = CurrentEntry.admission_day
                      /\ NewRecord.room = CurrentEntry.room_id

\* after solve such a patient is counted once, under H5 when it has no
\* admission day and under H2 when it has one
NoCompatibleRoomCount ==
  pc = "done" =>
    /\ hardParts[5] = Cardinality(UnadmittedMandatory(solPatients))
                        + (IF ub = "novalue"
                             THEN Cardinality(MissingMandatory(solPatients)) ELSE 0)
    /\ \A k \in IdxSet(inst.patients) :
          (/\ inst.patients[k].mandatory
           /\ AllRoomsIncompatible(inst.patients[k])
           /\ FindById(solPatients, inst.patients[k].id) # 0)
          => IF solPatients[FindById(solPatients, inst.patients[k].id)].has_day
               THEN k \notin UnadmittedMandatory(solPatients) /\ hardParts[2] >= 1
               ELSE k \in UnadmittedMandatory(solPatients)
    /\ hardParts[2] =
         Cardinality({j \in IdxSet(solPatients) :
                        /\ solPatients[j].has_day
                        /\ InSeq(Pat(solPatients[j].id).incompatible_room_ids,
                                 solPatients[j].room)})

\* C13, amended: for a mandatory patient with no compatible room, solve
\* leaves it without admission day, counted once under H5, exactly when its
\* encoded placement fails one of the three checks; an encoded placement
\* that passes them is committed in the incompatible room and counted once
\* under H2 instead
C13_NoCompatibleRoom == [][NoCompatibleRoomStep]_vars /\ [](NoCompatibleRoomCount)

\* solve returned after the repair ran for such a patient and found nothing
C13_Witness ==
  /\ pc = "done"
  /\ \E i \in IdxSet(enc.encoded_patients) : \E k \in IdxSet(log) :
        /\ EncodedWithoutCompatibleRoom(i)
        /\ log[k].id = enc.encoded_patients[i].patient_id
        /\ ~log[k].placed
        /\ ~solPatients[FindById(solPatients, log[k].id)].has_day
  /\ hardParts[5] = 1
  /\ hardParts[2] = 0

---------------------------------------------------------------------------
(* Properties of the commits and the repairs                                *)

\* the theaters with room for the surgery on the day, hosting a patient that
\* day (open) or none (closed)
FeasibleTheaters(patient, day, open) ==
  {t \in IdxSet(theaterStates) :
     /\ theaterStates[t].availability_per_day[day] >= patient.surgery_duration
     /\ (theaterStates[t].patients_per_day[day] # <<>>) = open}

\* theater t is the one the two-tier rule allows for the surgery
BestFit(patient, day, t) ==
  IF FeasibleTheaters(patient, day, TRUE) # {}
    THEN /\ t \in FeasibleTheaters(patient, day, TRUE)
         /\ \A u \in FeasibleTheaters(patient, day, TRUE) :
               theaterStates[t].availability_per_day[day] - patient.surgery_duration
                 <= theaterStates[u].availability_per_day[day] - patient.surgery_duration
    ELSE /\ t \in FeasibleTheaters(patient, day, FALSE)
         /\ \A u \in FeasibleTheaters(patient, day, FALSE) :
               theaterStates[t].availability_per_day[day]
                 >= theaterStates[u].availability_per_day[day]

\* a step that places a patient takes the theater of the rule, and changes
\* that theater on the admission day only
TheaterChosenByRule ==
  (/\ pc \in {"mandatory", "optional"}
   /\ solPatients' # solPatients
   /\ NewRecord.has_day)
  =>
  \E t \in IdxSet(theaterStates) :
     /\ theaterStates[t].theater_info.id = NewRecord.theater
     /\ BestFit(CurrentPatient, NewRecord.admission_day, t)
     /\ theaterStates'[t].availability_per_day[NewRecord.admission_day]
          = theaterStates[t].availability_per_day[NewRecord.admission_day]
              - CurrentPatient.surgery_duration
     /\ theaterStates'[t].patients_per_day[NewRecord.admission_day]
          = Append(theaterStates[t].patients_per_day[NewRecord.admission_day],
                   CurrentPatient.id)
     /\ \A u \in IdxSet(theaterStates) : \A d \in Days :
           (u # t \/ d # NewRecord.admission_day)
             => /\ theaterStates'[u].availability_per_day[d]
                     = theaterStates[u].availability_per_day[d]
                /\ theaterStates'[u].patients_per_day[d]
                     = theaterStates[u].patients_per_day[d]
     /\ Len(theaterStates') = Len(theaterStates)

\* C17: assignOperatingTheater takes, among the open theaters that fit, one
\* with the smallest remaining availability; only when none is open and fits,
\* among the closed ones that fit, one with the largest availability; the
\* chosen theater's availability on the day drops by the surgery duration
\* and no other theater or day changes
C17_TwoTierBestFit == [][TheaterChosenByRule]_vars

\* the third surgery of a day went to the second theater, the tighter of two
\* open theaters that both fitted it
C17_Witness ==
  /\ Len(theaterStates) = 2
  /\ \E d \in Days :
        /\ Len(theaterStates[1].patients_per_day[d]) = 1
        /\ Len(theaterStates[2].patients_per_day[d]) = 2
        /\ theaterStates[1].availability_per_day[d]
             >= Pat(theaterStates[2].patients_per_day[d][2]).surgery_duration
        /\ theaterStates[1].availability_per_day[d]
             > theaterStates[2].availability_per_day[d]

\* the (day, room index) pairs repairMandatoryPatient may pick for the
\* patient on the pools of the state: a day of the window release..min(due,
\* horizon - 1), a room that is not incompatible, the three checks passing
MandatoryCandidates(patient) ==
  {dr \in (patient.surgery_release_day
             ..Min(patient.surgery_due_day, inst.days - 1)) \X IdxSet(inst.rooms) :
     /\ ~InSeq(patient.incompatible_room_ids, inst.rooms[dr[2]].id)
     /\ AllChecksPass(patient, dr[1], inst.rooms[dr[2]].id)}

\* days in the outer loop, rooms in declared order in the inner loop
ScannedBefore(a, b) == a[1] < b[1] \/ (a[1] = b[1] /\ a[2] < b[2])

FirstCandidateOrUntouched(rep, patient, e) ==
  IF MandatoryCandidates(patient) = {}
    THEN rep.status = "fail" /\ rep.enc = e
    ELSE /\ rep.status = "ok"
         /\ rep.enc.patient_id = e.patient_id
         /\ \E dr \in MandatoryCandidates(patient) :
               /\ rep.enc.admission_day = dr[1]
               /\ rep.enc.room_id = inst.rooms[dr[2]].id
               /\ \A other \in MandatoryCandidates(patient) :
                     ~ScannedBefore(other, dr) /\ dr[1] <= other[1]

\* C18: at every mandatory entry solve reaches, repairMandatoryPatient on the
\* pools of that moment succeeds with the first (day, room) that passes the
\* three checks, days release..min(due, horizon - 1) outside and compatible
\* rooms in declared order inside, so on the earliest feasible day of the
\* window; when nothing passes it fails and the entry keeps its day and room
C18_MandatoryRepairFirstFit ==
  pc = "mandatory" =>
    FirstCandidateOrUntouched(
      repairMandatoryPatient(surgeons, theaterStates, roomStates,
                             CurrentPatient, CurrentEntry),
      CurrentPatient, CurrentEntry)

\* a mandatory entry whose encoded placement fails is about to be moved to a
\* later room on the earliest day although an earlier room is feasible on a
\* later day
C18_Witness ==
  /\ pc = "mandatory"
  /\ FeasibilityChecks(surgeons, theaterStates, roomStates, CurrentPatient,
                       CurrentEntry.admission_day, CurrentEntry.room_id) = "fail"
  /\ \E a, b \in MandatoryCandidates(CurrentPatient) :
        /\ a[1] < b[1] /\ b[2] < a[2]
        /\ repairMandatoryPatient(surgeons, theaterStates, roomStates,
                                  CurrentPatient, CurrentEntry).enc.admission_day = a[1]
        /\ repairMandatoryPatient(surgeons, theaterStates, roomStates,
                                  CurrentPatient, CurrentEntry).enc.room_id
             = inst.rooms[a[2]].id

\* one exhaustive pass over the days release..horizon - 1 and the compatible
\* rooms, on the pools of the state
SinglePass(patient, e) ==
  RepairScan(surgeons, theaterStates, roomStates, patient, e,
             patient.surgery_release_day, inst.days - 1, 1)

\* the (day, room index) pairs such a pass can accept
OptionalCandidates(patient) ==
  {dr \in (patient.surgery_release_day..(inst.days - 1)) \X IdxSet(inst.rooms) :
     /\ ~InSeq(patient.incompatible_room_ids, inst.rooms[dr[2]].id)
     /\ AllChecksPass(patient, dr[1], inst.rooms[dr[2]].id)}

\* C19: for every entry solve reaches and the pools of that moment,
\* repairOptionalPatient with its 5 attempts yields the same success flag and
\* leaves the same day and room in the entry as one exhaustive pass over the
\* days from the release day to the end of the horizon and the compatible rooms
C19_AttemptsEqualSinglePass ==
  pc \in {"mandatory", "optional"} =>
    LET rep == repairOptionalPatient(surgeons, theaterStates, roomStates,
                                     CurrentPatient, CurrentEntry)
    IN /\ rep = SinglePass(CurrentPatient, CurrentEntry)
       /\ rep.status = "ok" <=> OptionalCandidates(CurrentPatient) # {}
       /\ rep.status = "fail" => rep.enc = CurrentEntry

\* an optional entry whose encoded placement fails is about to be relocated
\* by the first attempt, and an earlier entry of the same solve has no
\* candidate in any attempt
C19_Witness ==
  /\ pc = "optional"
  /\ FeasibilityChecks(surgeons, theaterStates, roomStates, CurrentPatient,
                       CurrentEntry.admission_day, CurrentEntry.room_id) = "fail"
  /\ repairOptionalPatient(surgeons, theaterStates, roomStates,
                           CurrentPatient, CurrentEntry).status = "ok"
  /\ repairOptionalPatient(surgeons, theaterStates, roomStates,
                           CurrentPatient, CurrentEntry).enc # CurrentEntry
  /\ \E k \in IdxSet(mandatoryEnc) :
        repairOptionalPatient(surgeons, theaterStates, roomStates,
                              Pat(mandatoryEnc[k].patient_id),
                              mandatoryEnc[k]).status = "fail"

\* the records of the patients solve has placed so far
PlacedRecords == {k \in IdxSet(solPatients) : solPatients[k].has_day}

SurgeryMinutes(S) ==
  SumOver(S, [k \in S |-> Pat(solPatients[k].id).surgery_duration])

\* the days of the stay of a placed record, clipped to the horizon
StayOf(k) ==
  {d \in Days : /\ solPatients[k].admission_day <= d
                /\ d < solPatients[k].admission_day
                         + Pat(solPatients[k].id).length_of_stay}

\* what has been taken from the pools is what the placed patients take, and
\* nothing else: per surgeon and day, per theater and day, per room and day
ConsumptionMatchesPlacements ==
  pc \in {"mandatory", "optional", "evaluate", "done"} =>
    /\ \A s \in IdxSet(surgeons) : \A d \in Days :
          inst.surgeons[s].max_surgery_time[d] - surgeons[s].max_surgery_time[d]
            = SurgeryMinutes({k \in PlacedRecords :
                                /\ Pat(solPatients[k].id).surgeon_id = surgeons[s].id
                                /\ solPatients[k].admission_day = d})
    /\ \A t \in IdxSet(theaterStates) : \A d \in Days :
          /\ inst.theaters[t].availability[d]
               - theaterStates[t].availability_per_day[d]
               = SurgeryMinutes({k \in PlacedRecords :
                                   /\ solPatients[k].theater
                                        = theaterStates[t].theater_info.id
                                   /\ solPatients[k].admission_day = d})
          /\ Range(theaterStates[t].patients_per_day[d])
               = {solPatients[k].id : k \in {j \in PlacedRecords :
                      /\ solPatients[j].theater = theaterStates[t].theater_info.id
                      /\ solPatients[j].admission_day = d}}
    /\ \A r \in IdxSet(roomStates) : \A d \in Days :
          /\ roomStates[r].room_info.capacity - roomStates[r].capacity_per_day[d]
               = Len(roomStates[r].occupants_per_day[d])
                   + Cardinality({k \in PlacedRecords :
                                    /\ solPatients[k].room = roomStates[r].room_info.id
                                    /\ d \in StayOf(k)})
          /\ Range(roomStates[r].patients_per_day[d])
               = {solPatients[k].id : k \in {j \in PlacedRecords :
                      /\ solPatients[j].room = roomStates[r].room_info.id
                      /\ d \in StayOf(j)}}

\* a step of the entry loops changes the pools only when it places the
\* patient: checks and repairs that end in an unplaced patient or in a throw
\* leave surgeons, theaters and rooms as they were
PoolsChangeByPlacementOnly ==
  (/\ pc \in {"mandatory", "optional"}
   /\ ~(solPatients' # solPatients /\ NewRecord.has_day))
  => UNCHANGED <<surgeons, theaterStates, roomStates>>

\* C20: the feasibility checks and both repairs leave surgeon budgets,
\* theater availability and patient lists, and room capacity and patient
\* lists unchanged; a patient that ends unplaced consumes no surgeon time,
\* theater time or room capacity
C20_ChecksAndRepairsConsumeNothing ==
  [][PoolsChangeByPlacementOnly]_vars /\ [](ConsumptionMatchesPlacements)

\* solve returned with one patient placed by a repair and another left
\* unplaced after its repair failed
C20_Witness ==
  /\ pc = "done"
  /\ \E a, b \in IdxSet(log) :
        /\ log[a].repaired /\ log[a].placed
        /\ ~log[b].placed
        /\ FindById(solPatients, log[b].id) # 0
        /\ ~solPatients[FindById(solPatients, log[b].id)].has_day

---------------------------------------------------------------------------
(* Properties of localSearchNurses                                          *)

\* localSearchNurses has returned a pair
SearchReturned == pc = "ls_done" /\ ls.phase = "returned"

\* C14: whenever localSearchNurses accepts a swap, the hard count it returns
\* is not greater than the hard count of its initial solve
C14_AcceptedSwapKeepsHard ==
  (SearchReturned /\ ls.accepted) =>
    /\ result.hard <= ls.hard0
    /\ result.hard = SumSeq(hardParts)

\* a swap was accepted on an equal hard count and a lower soft total, and
\* the blocks the caller holds are no longer those passed in
C14_Witness ==
  /\ SearchReturned
  /\ ls.accepted
  /\ result.hard = ls.hard0
  /\ result.soft < ls.soft0
  /\ enc.encoded_nurses # ls.passed

\* the pairs of blocks the loops try: i < j with the same (day, shift)
CandidatePairs ==
  {ij \in IdxSet(BlockMeta(inst.nurses, 1)) \X IdxSet(BlockMeta(inst.nurses, 1)) :
     /\ ij[1] < ij[2]
     /\ BlockMeta(inst.nurses, 1)[ij[1]] = BlockMeta(inst.nurses, 1)[ij[2]]}

\* the pair a full evaluation of the decoded patients gives with the blocks:
\* all eight penalties and the hard count (every mandatory patient decoded)
FullScore(blocks) ==
  LET na == NurseAssignments(inst, blocks)
      soft == SoftResults(roomStates, theaterStates, solPatients, na)
  IN Score(SumSeq(HardParts(roomStates, theaterStates, solPatients, na, "none")),
           SumSeq([k \in 1..8 |-> soft[k].value]))

\* no swap of a candidate pair of the blocks passed in scores strictly better
\* than the initial solve
NoSwapImproves ==
  \A ij \in CandidatePairs :
     ~isBetterFitness(FullScore(Swap(ls.passed, ij[1], ij[2])),
                      Score(ls.hard0, ls.soft0))

\* C15: if no candidate swap gives a strictly better (hard, soft) pair,
\* localSearchNurses returns the pair of its initial solve and the nurse
\* blocks of the encoding are those passed in
C15_NoImprovementKeepsBlocks ==
  SearchReturned =>
    /\ ~ls.accepted => /\ result = Score(ls.hard0, ls.soft0)
                       /\ enc.encoded_nurses = ls.passed
    /\ (MissingMandatory(solPatients) = {} /\ NoSwapImproves) => ~ls.accepted

\* both candidate pairs held different blocks, both swaps were tried and
\* undone, and the initial pair came back
C15_Witness ==
  /\ SearchReturned
  /\ ~ls.accepted
  /\ MissingMandatory(solPatients) = {}
  /\ NoSwapImproves
  /\ \A ij \in CandidatePairs : ls.passed[ij[1]] # ls.passed[ij[2]]
  /\ Cardinality(CandidatePairs) = 2
  /\ solNurses # NurseAssignments(inst, ls.passed)
  /\ enc.encoded_nurses = ls.passed
  /\ result = Score(ls.hard0, ls.soft0)

\* S2 of the decoded patients with the given nurse blocks
SkillPenaltyWith(blocks) ==
  calculateMinimumSkillPenalty(roomStates, solPatients,
                               NurseAssignments(inst, blocks)).value

\* some candidate pair of the blocks passed in lowers S2 when swapped
SomeSwapReducesSkillPenalty ==
  \E ij \in CandidatePairs :
     SkillPenaltyWith(Swap(ls.passed, ij[1], ij[2])) < SkillPenaltyWith(ls.passed)

\* the encoding holds the blocks passed in with one candidate pair swapped
SwapCommitted ==
  \E ij \in CandidatePairs :
     /\ ls.passed[ij[1]] # ls.passed[ij[2]]
     /\ enc.encoded_nurses = Swap(ls.passed, ij[1], ij[2])

ImprovingPairs ==
  {ij \in CandidatePairs :
     isBetterFitness(FullScore(Swap(ls.passed, ij[1], ij[2])),
                     Score(ls.hard0, ls.soft0))}

---------------------------------------------------------------------------
(* Properties of the evaluation                                             *)

\* the room-days on which patients plus occupants exceed the capacity
OverCapacity(rms) ==
  {rd \in IdxSet(rms) \X Days :
     Len(rms[rd[1]].patients_per_day[rd[2]])
       + Len(rms[rd[1]].occupants_per_day[rd[2]])
       > rms[rd[1]].room_info.capacity}

\* C21: the hard count includes one H7 violation for every room and day on
\* which assigned patients plus occupants exceed the room's capacity, also
\* when the occupants alone exceed it
C21_OverCapacityCounted ==
  pc = "done" => hardParts[7] = Cardinality(OverCapacity(roomStates))

\* the room holds a patient with an admission day whose stay covers the day,
\* or an occupant still present on the day
HoldsSomeone(room_id, d) ==
  \/ \E k \in PlacedRecords : solPatients[k].room = room_id /\ d \in StayOf(k)
  \/ \E o \in IdxSet(inst.occupants) :
        inst.occupants[o].room_id = room_id /\ d < inst.occupants[o].length_of_stay

\* the nurses with an assignment for the day and shift that lists the room
ListedBy(room_id, d, shift) ==
  {n \in IdxSet(solNurses) :
     \E a \in IdxSet(solNurses[n].assignments) :
        /\ solNurses[n].assignments[a].day = d
        /\ solNurses[n].assignments[a].shift = shift
        /\ room_id \in Range(solNurses[n].assignments[a].rooms)}

\* the shift types some nurse of the problem works at all
WorkedShifts ==
  UNION {{inst.nurses[n].working_shifts[w].shift :
            w \in IdxSet(inst.nurses[n].working_shifts)} : n \in IdxSet(inst.nurses)}

Uncovered ==
  {rds \in IdxSet(inst.rooms) \X Days \X Range(inst.shift_types) :
     /\ HoldsSomeone(inst.rooms[rds[1]].id, rds[2])
     /\ ListedBy(inst.rooms[rds[1]].id, rds[2], rds[3]) = {}}

\* C22: for every room, every day on which it holds a patient or occupant
\* and every declared shift type, the hard count has exactly one H8 violation
\* iff no nurse assignment with that day and shift lists the room, also for a
\* shift type no nurse ever works
C22_MissingCoverageCounted ==
  (pc \in {"done", "search", "ls_done"} /\ hardParts # <<>>)
    => hardParts[8] = Cardinality(Uncovered)

\* an occupied room-day covered on one shift, uncovered on another shift that
\* a nurse works, and uncovered on a shift type that no nurse works
C22_Witness ==
  /\ pc = "done"
  /\ \E r \in IdxSet(inst.rooms) : \E d \in Days :
     \E s1, s2, s3 \in Range(inst.shift_types) :
        /\ HoldsSomeone(inst.rooms[r].id, d)
        /\ ListedBy(inst.rooms[r].id, d, s1) # {}
        /\ s2 \in WorkedShifts /\ <<r, d, s2>> \in Uncovered
        /\ s3 \notin WorkedShifts /\ <<r, d, s3>> \in Uncovered
  /\ hardParts[8] = Cardinality(Uncovered)

\* the entry of a per-(day, shift) vector at a 0-based slot, 0 outside it
AtSlot(vec, slot) == IF slot >= 0 /\ slot < Len(vec) THEN vec[slot + 1] ELSE 0

\* 0-based position of a shift among the declared shift types
ShiftNumber(shift) == CHOOSE s \in 0..(Len(inst.shift_types) - 1) :
                         inst.shift_types[s + 1] = shift

\* the slot of a placed patient's vectors for a day and shift: days since
\* admission; of an occupant's: days since the start of the horizon
PatientSlot(k, d, shift) ==
  (d - solPatients[k].admission_day) * Len(inst.shift_types) + ShiftNumber(shift)

OccupantSlot(d, shift) == d * Len(inst.shift_types) + ShiftNumber(shift)

\* every (nurse, assignment, position in the room list) of the decoded nurses
Listings ==
  {nar \in IdxSet(solNurses) \X (1..TotalBlocks(inst)) \X (1..Len(inst.rooms) + 1) :
     /\ nar[2] \in IdxSet(solNurses[nar[1]].assignments)
     /\ nar[3] \in IdxSet(solNurses[nar[1]].assignments[nar[2]].rooms)}

ListedRoom(nar) == solNurses[nar[1]].assignments[nar[2]].rooms[nar[3]]
ListedDay(nar) == solNurses[nar[1]].assignments[nar[2]].day
ListedShift(nar) == solNurses[nar[1]].assignments[nar[2]].shift

\* the placed patients and the occupants present in the listed room that day
PatientsUnder(nar) ==
  {k \in PlacedRecords :
     solPatients[k].room = ListedRoom(nar) /\ ListedDay(nar) \in StayOf(k)}

OccupantsUnder(nar) ==
  {o \in IdxSet(inst.occupants) :
     /\ inst.occupants[o].room_id = ListedRoom(nar)
     /\ ListedDay(nar) < inst.occupants[o].length_of_stay}

Shortfall(required, level) == IF required > level THEN required - level ELSE 0

SkillShortfallUnder(nar) ==
  LET level == inst.nurses[nar[1]].skill_level IN
  SumOver(PatientsUnder(nar), [k \in PatientsUnder(nar) |->
     Shortfall(AtSlot(Pat(solPatients[k].id).skill_level_required,
                      PatientSlot(k, ListedDay(nar), ListedShift(nar))), level)])
  + SumOver(OccupantsUnder(nar), [o \in OccupantsUnder(nar) |->
     Shortfall(AtSlot(inst.occupants[o].skill_level_required,
                      OccupantSlot(ListedDay(nar), ListedShift(nar))), level)])

\* C23: S2 is the skill weight times the sum, over every nurse, every shift
\* assignment, every room it lists and every patient or occupant in that room
\* on that day, of max(0, required - nurse skill), required taken at the slot
\* (days since admission, shift) for a patient and (days since the horizon
\* start, shift) for an occupant; a room several nurses list counts per nurse
C23_SkillPenaltyIsSumOfShortfalls ==
  pc = "done" =>
    softConstraints[2]
      = inst.weights.room_nurse_skill
          * SumOver(Listings, [nar \in Listings |-> SkillShortfallUnder(nar)])

\* two nurses list the same room for the same day and shift and each adds a
\* shortfall; a patient admitted after day 0 and an occupant both add one
C23_Witness ==
  /\ pc = "done"
  /\ \E a, b \in Listings :
        /\ a[1] # b[1]
        /\ ListedRoom(a) = ListedRoom(b)
        /\ ListedDay(a) = ListedDay(b) /\ ListedShift(a) = ListedShift(b)
        /\ SkillShortfallUnder(a) > 0 /\ SkillShortfallUnder(b) > 0
  /\ \E a \in Listings : \E k \in PatientsUnder(a) :
        /\ solPatients[k].admission_day > 0
        /\ Shortfall(AtSlot(Pat(solPatients[k].id).skill_level_required,
                            PatientSlot(k, ListedDay(a), ListedShift(a))),
                     inst.nurses[a[1]].skill_level) > 0
  /\ \E a \in Listings : \E o \in OccupantsUnder(a) :
        /\ ListedDay(a) > 0
        /\ Shortfall(AtSlot(inst.occupants[o].skill_level_required,
                            OccupantSlot(ListedDay(a), ListedShift(a))),
                     inst.nurses[a[1]].skill_level) > 0

\* every (nurse, assignment) of the decoded nurses
Assignments ==
  {na \in IdxSet(solNurses) \X (1..TotalBlocks(inst)) :
     na[2] \in IdxSet(solNurses[na[1]].assignments)}

\* what a listed room adds to the load of the assignment, every person read
\* at slot (days since admission, or since the horizon start) * (number of
\* declared shift types) + shift index
WorkloadUnder(nar) ==
  SumOver(PatientsUnder(nar), [k \in PatientsUnder(nar) |->
     AtSlot(Pat(solPatients[k].id).workload_produced,
            PatientSlot(k, ListedDay(nar), ListedShift(nar)))])
  + SumOver(OccupantsUnder(nar), [o \in OccupantsUnder(nar) |->
     AtSlot(inst.occupants[o].workload_produced,
            OccupantSlot(ListedDay(nar), ListedShift(nar)))])

DeclaredLoad(na) ==
  LET L == {nar \in Listings : nar[1] = na[1] /\ nar[2] = na[2]}
  IN SumOver(L, [nar \in L |-> WorkloadUnder(nar)])

\* max_load of the nurse's working shift with the assignment's day and shift
MaxLoadOf(na) ==
  LET sa == solNurses[na[1]].assignments[na[2]]
      ws == inst.nurses[na[1]].working_shifts
  IN ws[CHOOSE w \in IdxSet(ws) :
          /\ ws[w].day = sa.day /\ ws[w].shift = sa.shift
          /\ \A v \in IdxSet(ws) :
                (ws[v].day = sa.day /\ ws[v].shift = sa.shift) => w <= v].max_load

ExcessLoad(na) ==
  IF DeclaredLoad(na) > MaxLoadOf(na) THEN DeclaredLoad(na) - MaxLoadOf(na) ELSE 0

\* C24: S4 adds, for every nurse shift assignment, weight * (load - max load)
\* when the load exceeds the max load and nothing otherwise, the load being
\* the sum of the entries of the workload vectors of the persons in the listed
\* rooms at slot (days since admission) * (number of declared shift types)
\* + shift index, whatever the number of declared shift types
C24_WorkloadSlotUsesDeclaredShifts ==
  pc = "done" =>
    softConstraints[4]
      = inst.weights.nurse_eccessive_workload
          * SumOver(Assignments, [na \in Assignments |-> ExcessLoad(na)])

---------------------------------------------------------------------------
(* Properties of the loops of localSearchNurses *)

\* the order of the two loops on pairs of block indices, and on score pairs
LexLess(a, b) == a[1] < b[1] \/ (a[1] = b[1] /\ a[2] < b[2])

\* the first pair of a set of pairs in loop order, <<0, 0>> for none
FirstOf(S) ==
  IF S = {} THEN <<0, 0>>
  ELSE CHOOSE m \in S : \A x \in S : m = x \/ LexLess(m, x)

\* the candidate pairs the loops reach after (i, j)
LaterPairs(i, j) == {ij \in CandidatePairs : LexLess(<<i, j>>, ij)}

\* the loops start at the first candidate pair with the pair of the solve
SearchStarts ==
  (pc = "done" /\ pc' = "search") =>
    /\ <<ls'.i, ls'.j>> = FirstOf(CandidatePairs)
    /\ ls'.hard0 = result.hard /\ ls'.soft0 = result.soft
    /\ enc' = enc

\* a candidate pair was swapped, evaluated, found no better and undone, and
\* the loops move to the next candidate pair
SearchMovesOn ==
  (pc = "search" /\ pc' = "search") =>
    /\ <<ls.i, ls.j>> \in CandidatePairs
    /\ solNurses' = NurseAssignments(inst, Swap(enc.encoded_nurses, ls.i, ls.j))
    /\ ~LexLess(<<SumSeq(hardParts'), totalSoft'>>, <<ls.hard0, ls.soft0>>)
    /\ enc' = enc
    /\ <<ls'.i, ls'.j>> = FirstOf(LaterPairs(ls.i, ls.j))

\* the call returns: at a candidate pair whose swap evaluates to a smaller
\* pair, which it returns and leaves in the encoding as the only change; or
\* after the last candidate pair, with nothing changed
SearchReturns ==
  (pc = "search" /\ pc' = "ls_done") =>
    /\ enc.encoded_nurses = ls.passed
    /\ enc'.encoded_patients = enc.encoded_patients
    /\ IF ls'.accepted
         THEN /\ <<ls.i, ls.j>> \in CandidatePairs
              /\ solNurses' = NurseAssignments(inst, Swap(ls.passed, ls.i, ls.j))
              /\ LexLess(<<SumSeq(hardParts'), totalSoft'>>, <<ls.hard0, ls.soft0>>)
              /\ result' = Score(SumSeq(hardParts'), totalSoft')
              /\ enc'.encoded_nurses = Swap(ls.passed, ls.i, ls.j)
         ELSE /\ ls.i = 0
              /\ result' = Score(ls.hard0, ls.soft0)
              /\ enc' = enc

SearchStep == SearchStarts /\ SearchMovesOn /\ SearchReturns

\* C25: localSearchNurses tries the pairs of blocks i < j in index order,
\* swaps only pairs with the same (day, shift), and returns at the first pair
\* whose swap evaluates to a lexicographically smaller (hard, soft) pair; the
\* encoding then differs from the input by exactly that swap and the returned
\* pair is the one computed for it
C25_FirstImprovingSwapReturned == [][SearchStep]_vars

\* the first candidate pair held different blocks and was tried and undone,
\* the second was accepted and is the only change of the encoding
C25_Witness ==
  /\ SearchReturned
  /\ ls.accepted
  /\ Cardinality(CandidatePairs) = 2
  /\ <<ls.i, ls.j>> # FirstOf(CandidatePairs)
  /\ ls.passed[FirstOf(CandidatePairs)[1]] # ls.passed[FirstOf(CandidatePairs)[2]]
  /\ enc.encoded_nurses # ls.passed
  /\ enc.encoded_nurses = Swap(ls.passed, ls.i, ls.j)
  /\ result = Score(SumSeq(hardParts), totalSoft)

\* solve has ended on the encoding localSearchNurses left behind
SolvedAgain == ls.phase = "resolve" /\ pc \in {"done", "fault", "crashed"}

\* C26: the pair localSearchNurses returns equals the pair a full solve
\* returns on the encoding it leaves behind
C26_ReturnedPairIsFullSolve ==
  SolvedAgain => (pc = "done" /\ result = prev)

\* the same on the runs in which every mandatory patient is decoded
SearchPairIsFullSolveWhenDecoded ==
  (SolvedAgain /\ MissingMandatory(solPatients) = {})
    => (pc = "done" /\ result = prev)

\* a committed swap was re-solved with every mandatory patient decoded
SolvedAgainAfterSwap ==
  /\ SolvedAgain
  /\ ls.accepted
  /\ MissingMandatory(solPatients) = {}
  /\ enc.encoded_nurses # ls.passed
  /\ result = prev

\* a candidate swap has been evaluated by the running or returned search
SwapEvaluated ==
  /\ pc \in {"search", "ls_done"}
  /\ solNurses # NurseAssignments(inst, ls.passed) \/ ls.accepted

\* C27: for every candidate swap localSearchNurses examines, the recomputed
\* hard count equals the hard count of the initial solve
C27_SwapKeepsHardCount ==
  SwapEvaluated => SumSeq(hardParts) = ls.hard0

\* the same on the runs in which every mandatory patient is decoded
SwapKeepsHardCountWhenDecoded ==
  (SwapEvaluated /\ MissingMandatory(solPatients) = {})
    => SumSeq(hardParts) = ls.hard0

\* a swap that moved a room from one nurse to another was evaluated with
\* every mandatory patient decoded
DecodedSwapEvaluated ==
  /\ SwapEvaluated
  /\ MissingMandatory(solPatients) = {}
  /\ solNurses # NurseAssignments(inst, ls.passed)
  /\ hardParts[8] > 0

\* S2, S3 and S4 of the decoded patients with the given nurse blocks
NursePenaltiesWith(blocks) ==
  LET na == NurseAssignments(inst, blocks)
  IN << calculateMinimumSkillPenalty(roomStates, solPatients, na).value,
        calculateContinuityOfCarePenalty(roomStates, solPatients, na).value,
        calculateMaximumWorkloadPenalty(roomStates, solPatients, na).value >>

\* C28: when localSearchNurses returns, the decoded solution the solver holds
\* (the room assignments of the nurses, the stored S2, S3 and S4 and the
\* stored soft total) corresponds to the encoding left behind and to the
\* returned scores, also when no swap improved after one was tried
C28_HeldSolutionMatchesReturn ==
  SearchReturned =>
    /\ solNurses = NurseAssignments(inst, enc.encoded_nurses)
    /\ <<softConstraints[2], softConstraints[3], softConstraints[4]>>
         = NursePenaltiesWith(enc.encoded_nurses)
    /\ totalSoft = result.soft

\* the same for the returns at an accepted swap
HeldSolutionMatchesAcceptedSwap ==
  (SearchReturned /\ ls.accepted) =>
    /\ solNurses = NurseAssignments(inst, enc.encoded_nurses)
    /\ <<softConstraints[2], softConstraints[3], softConstraints[4]>>
         = NursePenaltiesWith(enc.encoded_nurses)
    /\ totalSoft = result.soft

---------------------------------------------------------------------------
(* Properties of the budgets *)

\* the surgery time the placed patients commit on a surgeon-day and on a
\* theater-day
SurgeonCommitted(s, d) ==
  SurgeryMinutes({k \in PlacedRecords :
                    /\ Pat(solPatients[k].id).surgeon_id = inst.surgeons[s].id
                    /\ solPatients[k].admission_day = d})

TheaterCommitted(t, d) ==
  SurgeryMinutes({k \in PlacedRecords :
                    /\ solPatients[k].theater = inst.theaters[t].id
                    /\ solPatients[k].admission_day = d})

\* C29: after every solve that returns, no surgeon-day and no theater-day
\* has more surgery time committed than the original budget or availability,
\* H3 and H4 are 0, and each remaining budget or availability is the original
\* value minus the committed durations and is not negative
C29_BudgetsNeverExceeded ==
  pc = "done" =>
    /\ \A s \in IdxSet(inst.surgeons) : \A d \in Days :
          /\ SurgeonCommitted(s, d) <= inst.surgeons[s].max_surgery_time[d]
          /\ surgeons[s].max_surgery_time[d]
               = inst.surgeons[s].max_surgery_time[d] - SurgeonCommitted(s, d)
          /\ surgeons[s].max_surgery_time[d] >= 0
    /\ \A t \in IdxSet(inst.theaters) : \A d \in Days :
          /\ TheaterCommitted(t, d) <= inst.theaters[t].availability[d]
          /\ theaterStates[t].availability_per_day[d]
               = inst.theaters[t].availability[d] - TheaterCommitted(t, d)
          /\ theaterStates[t].availability_per_day[d] >= 0
    /\ hardParts[3] = 0
    /\ hardParts[4] = 0

\* a surgeon-day is used up by two surgeries, a theater-day is used up, and
\* a patient encoded on a day its surgeon could not take was moved or left out
C29_Witness ==
  /\ pc = "done"
  /\ \E s \in IdxSet(inst.surgeons) : \E d \in Days :
        /\ surgeons[s].max_surgery_time[d] = 0
        /\ Cardinality({k \in PlacedRecords :
                          /\ Pat(solPatients[k].id).surgeon_id = inst.surgeons[s].id
                          /\ solPatients[k].admission_day = d}) >= 2
  /\ \E t \in IdxSet(inst.theaters) : \E d \in Days :
        /\ theaterStates[t].availability_per_day[d] = 0
        /\ TheaterCommitted(t, d) > 0
  /\ \E k \in IdxSet(log) : log[k].repaired

---------------------------------------------------------------------------
(* Properties of the repaired placements *)

\* the entries the running or last solve processed whose placement comes
\* from a repair; entry k of the log made record k of the decoded patients
RepairedPlacements == {k \in IdxSet(log) : log[k].repaired /\ log[k].placed}

InIncompatibleRoom(k) ==
  \E r \in IdxSet(Pat(solPatients[k].id).incompatible_room_ids) :
     Pat(solPatients[k].id).incompatible_room_ids[r] = solPatients[k].room

OutsideWindow(k) ==
  \/ solPatients[k].admission_day < Pat(solPatients[k].id).surgery_release_day
  \/ /\ Pat(solPatients[k].id).mandatory
     /\ solPatients[k].admission_day > Pat(solPatients[k].id).surgery_due_day

\* C30: a patient placed by repairMandatoryPatient or repairOptionalPatient
\* is in a room outside its incompatible set, not before its release day
\* and, if mandatory, not after its due day; H2 and H6 count only records
\* placed as encoded
C30_RepairedPlacementsCostNothing ==
  pc \in {"mandatory", "optional", "evaluate", "done"} =>
    /\ \A k \in RepairedPlacements :
          /\ k \in PlacedRecords
          /\ solPatients[k].id = log[k].id
          /\ ~InIncompatibleRoom(k)
          /\ ~OutsideWindow(k)
    /\ pc = "done" =>
          /\ hardParts[2] = Cardinality({k \in PlacedRecords \ RepairedPlacements :
                                           InIncompatibleRoom(k)})
          /\ hardParts[6] = Cardinality({k \in PlacedRecords \ RepairedPlacements :
                                           OutsideWindow(k)})

\* solve returned with a repaired patient that has an incompatible room and
\* was moved out of it, and with a patient placed as encoded before its
\* release day, which H6 counts
C30_Witness ==
  /\ pc = "done"
  /\ \E k \in RepairedPlacements :
        /\ Pat(solPatients[k].id).incompatible_room_ids # <<>>
        /\ enc.encoded_patients[log[k].pos].room_id # solPatients[k].room
  /\ \E j \in PlacedRecords \ RepairedPlacements : OutsideWindow(j)
  /\ hardParts[6] > 0
=============================================================================
